---------------------------- MODULE Spec2Model ----------------------------
(***************************************************************************)
(* A model of the ranked skip list of src/zskiplist.go (descending order,  *)
(* RankInterface = IsGreaterThan + Uuid), of its ascending variant         *)
(* src/unnamed/part_004 (RankInterface = CompareTo) and of the variant     *)
(* with IsContains, src/unnamed/part_003.                                  *)
(*                                                                         *)
(* The heap is a function from node addresses to node records.  The head   *)
(* sentinel lives at address HEAD; the node that Insert allocates for an   *)
(* object lives at the address Uuid(obj), which is unique among the nodes  *)
(* of the list because callers never insert an object that is already      *)
(* inside (src/zskiplist.go:137-140).  Level indexes are 0-based as in the *)
(* source.                                                                 *)
(***************************************************************************)
EXTENDS Integers, Sequences, FiniteSets, TLC

\* ---- program constants -------------------------------------------------
ZSKIPLIST_MAXLEVEL == 12
ZSKIPLIST_P == 250
RAND_MAX == 32767

\* ---- bounds of the model -----------------------------------------------
MaxUid == 3        \* objects have uid 1..MaxUid
MaxScore == 2      \* scores (testPlayer.Populace) are 1..MaxScore
MaxDraw == 2       \* randLevel results explored: 1..MaxDraw
MaxSeed == 2       \* seeds explored: the first MaxSeed of SeedList
MaxInserts == 3    \* Insert calls of a run that draws its levels from the seed
MaxRead == 2       \* elements of the lists that the read-only calls are made on

NIL == -1          \* the nil *ZSkipListNode
HEAD == 0          \* address of the head sentinel

Uids == 1..MaxUid
Scores == 1..MaxScore
LevelIdx == 0..(ZSKIPLIST_MAXLEVEL - 1)
DrawnLevels == 1..(IF MaxDraw < ZSKIPLIST_MAXLEVEL THEN MaxDraw ELSE ZSKIPLIST_MAXLEVEL)

\* the nil RankInterface held by the head sentinel
NilObj == [uid |-> 0, Populace |-> 0, Level |-> 0]

\* the test objects (testPlayer): Populace is the score an object is ranked
\* by, Level the first tie-break; the test data give the objects with an odd
\* uid Level 1 and the others Level 0
testPlayer == {[uid |-> u, Populace |-> p, Level |-> u % 2] : u \in Uids, p \in Scores}

VARIABLES
    zsl,    \* the ZSkipList: [nodes, tail, seed, length, level]
    set,    \* the caller's presence index: the live [score, Obj] pairs
    op      \* the call that is recorded: the query made since the last mutation
            \* or, in the example program, its last call

vars == <<zsl, set, op>>

\* ---- RankInterface of the test objects ---------------------------------
IsGreaterThan(p, rhs) ==
    IF p.Populace = rhs.Populace
    THEN IF p.Level = rhs.Level THEN p.uid < rhs.uid ELSE p.Level > rhs.Level
    ELSE p.Populace > rhs.Populace

Uuid(p) == p.uid

\* ---- nodes ---------------------------------------------------------------
newZSkipListNode(lvl, score, obj) ==
    [score |-> score,
     Obj |-> obj,
     level |-> [i \in 0..(lvl - 1) |-> [forward |-> NIL, span |-> 0]],
     backward |-> NIL]

\* ---- the random number generator -------------------------------------------
\* zsl.seed is a uint64; it is held as its four 16-bit digits, lowest first,
\* so that the products of randNext stay below 2^31
Limb == 65536

\* uint64(seed) for a seed from 0 to 2^31 - 1
toSeed(n) == <<n % Limb, n \div Limb, 0, 0>>

\* line 81
Multiplier == 214013
Increment == 2531011

\* lines 80-83: seed * Multiplier + Increment modulo 2^64, digit by digit,
\* and bits 16 to 30 of the new seed
randNext(seed) ==
    LET mlo == Multiplier % Limb
        mhi == Multiplier \div Limb
        t0 == (seed[1] * mlo) + (Increment % Limb)
        t1 == (seed[2] * mlo) + (seed[1] * mhi) + (Increment \div Limb) + (t0 \div Limb)
        t2 == (seed[3] * mlo) + (seed[2] * mhi) + (t1 \div Limb)
        t3 == (seed[4] * mlo) + (seed[3] * mhi) + (t2 \div Limb)
        next == <<t0 % Limb, t1 % Limb, t2 % Limb, t3 % Limb>>
    IN [seed |-> next, ret |-> next[2] % (RAND_MAX + 1)]

\* randCapped that never stops at the maximum
MutRandCapped(level) == TRUE

\* line 91: the level can still grow
randCapped(level) == level < ZSKIPLIST_MAXLEVEL

\* lines 91-93: the loop of randLevel; randNext is called only while the
\* level is below the maximum
RECURSIVE randLevelFrom(_, _)
randLevelFrom(seed, level) ==
    IF randCapped(level)
    THEN LET r == randNext(seed) IN
         IF r.ret < (RAND_MAX * ZSKIPLIST_P) \div 1000
         THEN randLevelFrom(r.seed, level + 1)
         ELSE [seed |-> r.seed, level |-> level]
    ELSE [seed |-> seed, level |-> level]

\* lines 89-95: the level drawn and the seed that is left
randLevel(seed) == randLevelFrom(seed, 1)

\* ---- the list ---------------------------------------------------------------
NewZSkipList(seed) ==
    [nodes |-> (HEAD :> newZSkipListNode(ZSKIPLIST_MAXLEVEL, 0, NilObj)),
     tail |-> NIL,
     seed |-> toSeed(seed),
     length |-> 0,
     level |-> 1]

ListLen(z) == z.length

Height(z) == z.level

HeadNode(z) == z.nodes[HEAD].level[0].forward

TailNode(z) == z.tail

NodeNext(z, n) == z.nodes[n].level[0].forward


\* ---- Insert ----------------------------------------------------------------
\* insertBefore without the tie-break at equal scores
MutInsertBefore(z, f, score, obj) ==
    f # NIL /\ z.nodes[f].score > score

\* the condition of the inner loop of the descent (lines 128-131): the node
\* f = x.level[i].forward is ordered before (score, obj)
insertBefore(z, f, score, obj) ==
    f # NIL /\ (z.nodes[f].score > score \/
                (z.nodes[f].score = score /\ IsGreaterThan(z.nodes[f].Obj, obj)))

\* the inner loop of the descent: go forward at level i while the next node
\* is ordered before (score, obj), adding the spans that are crossed
RECURSIVE insertForward(_, _, _, _, _, _)
insertForward(z, x, i, r, score, obj) ==
    LET f == z.nodes[x].level[i].forward IN
    IF insertBefore(z, f, score, obj)
    THEN insertForward(z, f, i, r + z.nodes[x].level[i].span, score, obj)
    ELSE [x |-> x, rank |-> r]

\* the outer loop of the descent, from level i down to level 0
RECURSIVE insertDescend(_, _, _, _, _, _, _)
insertDescend(z, x, i, update, rank, score, obj) ==
    IF i < 0 THEN [update |-> update, rank |-> rank]
    ELSE LET r0 == IF i # z.level - 1 THEN rank[i + 1] ELSE rank[i]
             w == insertForward(z, x, i, r0, score, obj)
         IN insertDescend(z, w.x, i - 1, [update EXCEPT ![i] = w.x],
                          [rank EXCEPT ![i] = w.rank], score, obj)

\* insertNewLevel that leaves the span that head's link record holds
MutInsertNewLevel(link, length) == link

\* line 145: a level that the list gains starts at head and spans the list
insertNewLevel(link, length) == [forward |-> link.forward, span |-> length]

\* insertNodeLink that does not take over the forward link
MutInsertNodeLink(ulink, crossed) ==
    [forward |-> NIL, span |-> ulink.span - crossed]

\* lines 151 and 155: the link of the new node at a level it takes part in;
\* ulink is update[i].level[i], crossed is rank[0] - rank[i]
insertNodeLink(ulink, crossed) ==
    [forward |-> ulink.forward, span |-> ulink.span - crossed]

\* insertUpdateLink that leads back to head
MutInsertUpdateLoop(x, crossed) == [forward |-> HEAD, span |-> crossed + 1]

\* insertUpdateLink that forgets to count the new node
MutInsertUpdateLink(x, crossed) == [forward |-> x, span |-> crossed]

\* lines 152 and 156: the link of update[i] at a level the new node x takes
\* part in
insertUpdateLink(x, crossed) == [forward |-> x, span |-> crossed + 1]

\* insertUntouchedLink that leaves the span as it was
MutInsertUntouchedLink(ulink) == [forward |-> ulink.forward, span |-> ulink.span]

\* line 160: the link of update[i] at a level above the new node
insertUntouchedLink(ulink) == [forward |-> ulink.forward, span |-> ulink.span + 1]

\* insertBackward that never sets the reference
MutInsertBackwardNil(update0) == NIL

\* insertBackward without the test for head
MutInsertBackward(update0) == update0

\* lines 162-164: the backward reference of the new node
insertBackward(update0) == IF update0 # HEAD THEN update0 ELSE NIL

\* line 170
insertLength(length) == length + 1

\* lines 141-171: what Insert does after the descent d = [update, rank], with
\* the level that randLevel drew; the new node's address is Uuid(obj).  The
\* loops over i write level i only, so they are written as one function
\* constructor per node.
insertAt(z, d, score, obj, rlevel) ==
    LET rank == d.rank
        grow == rlevel > z.level
        \* lines 142-148
        update == [i \in LevelIdx |->
                     IF grow /\ i >= z.level /\ i < rlevel THEN HEAD ELSE d.update[i]]
        nodes1 == IF grow
                  THEN [z.nodes EXCEPT ![HEAD].level =
                          [i \in LevelIdx |->
                             IF i >= z.level /\ i < rlevel
                             THEN insertNewLevel(z.nodes[HEAD].level[i], z.length)
                             ELSE z.nodes[HEAD].level[i]]]
                  ELSE z.nodes
        level1 == IF grow THEN rlevel ELSE z.level
        \* lines 149-161
        x == Uuid(obj)
        xnode == [score |-> score,
                  Obj |-> obj,
                  level |-> [i \in 0..(rlevel - 1) |->
                     insertNodeLink(nodes1[update[i]].level[i], rank[0] - rank[i])],
                  backward |-> insertBackward(update[0])]
        nodes2 == [n \in DOMAIN nodes1 |->
                     [nodes1[n] EXCEPT !.level =
                        [i \in DOMAIN nodes1[n].level |->
                           IF i < rlevel /\ update[i] = n
                           THEN insertUpdateLink(x, rank[0] - rank[i])
                           ELSE IF i >= rlevel /\ i < level1 /\ update[i] = n
                           THEN insertUntouchedLink(nodes1[n].level[i])
                           ELSE nodes1[n].level[i]]]]
        \* lines 165-169
        fwd == xnode.level[0].forward
        nodes3 == [n \in DOMAIN nodes2 |->
                     IF n = fwd THEN [nodes2[n] EXCEPT !.backward = x] ELSE nodes2[n]]
    IN [z |-> [nodes |-> nodes3 @@ (x :> xnode),
               tail |-> IF fwd # NIL THEN z.tail ELSE x,
               seed |-> z.seed,
               length |-> insertLength(z.length),
               level |-> level1],
        ret |-> x]

\* lines 118-172 with the level that randLevel drew at line 141
Insert(z, score, obj, rlevel) ==
    insertAt(z, insertDescend(z, HEAD, z.level - 1, [i \in LevelIdx |-> NIL],
                              [i \in LevelIdx |-> 0], score, obj),
             score, obj, rlevel)

\* InsertRand that draws a level, throws it away and draws again
MutInsertRand(z, score, obj) ==
    LET rl == randLevel(randLevel(z.seed).seed)
        r == Insert(z, score, obj, rl.level)
    IN [z |-> [r.z EXCEPT !.seed = rl.seed], ret |-> r.ret]

\* lines 118-172: Insert as it draws the level from the seed of the list
\* (line 141)
InsertRand(z, score, obj) ==
    LET rl == randLevel(z.seed)
        r == Insert(z, score, obj, rl.level)
    IN [z |-> [r.z EXCEPT !.seed = rl.seed], ret |-> r.ret]

\* ---- Delete ----------------------------------------------------------------
\* deleteBypassLink that forgets the span of the unlinked node
MutDeleteBypassSpan(ulink, xlink) ==
    [forward |-> xlink.forward, span |-> ulink.span]

\* lines 177-178: the link of update[i] when it points at the node x that is
\* unlinked; xlink is x.level[i]
deleteBypassLink(ulink, xlink) ==
    [forward |-> xlink.forward, span |-> ulink.span + (xlink.span - 1)]

\* deletePassLink that leaves the span as it was
MutDeletePassLink(ulink) == ulink

\* line 180: the link of update[i] when it passes over x
deletePassLink(ulink) == [forward |-> ulink.forward, span |-> ulink.span - 1]

\* shrinkLevel that never lowers the height
MutShrinkLevel(nodes, level) == level

\* lines 188-190: lower the height while the top level of head is empty
RECURSIVE shrinkLevel(_, _)
shrinkLevel(nodes, level) ==
    IF level > 1 /\ nodes[HEAD].level[level - 1].forward = NIL
    THEN shrinkLevel(nodes, level - 1)
    ELSE level

\* deleteLength that forgets the decrement
MutDeleteLength(length) == length

\* line 191
deleteLength(length) == length - 1

\* deleteNode unlinks x given the per-level predecessors in update; the loop
\* over i writes level i of update[i] only.  The unlinked node leaves the
\* heap: nothing of the list refers to it any more.
deleteNode(z, x, update) ==
    LET xn == z.nodes[x]
        nodes1 == [n \in DOMAIN z.nodes |->
                     [z.nodes[n] EXCEPT !.level =
                        [i \in DOMAIN z.nodes[n].level |->
                           IF i < z.level /\ update[i] = n
                           THEN IF z.nodes[n].level[i].forward = x
                                THEN deleteBypassLink(z.nodes[n].level[i], xn.level[i])
                                ELSE deletePassLink(z.nodes[n].level[i])
                           ELSE z.nodes[n].level[i]]]]
        fwd == xn.level[0].forward
        nodes2 == [n \in DOMAIN nodes1 |->
                     IF n = fwd THEN [nodes1[n] EXCEPT !.backward = xn.backward]
                     ELSE nodes1[n]]
    IN [nodes |-> [n \in DOMAIN nodes2 \ {x} |-> nodes2[n]],
        tail |-> IF fwd # NIL THEN z.tail ELSE xn.backward,
        seed |-> z.seed,
        length |-> deleteLength(z.length),
        level |-> shrinkLevel(nodes2, z.level)]

\* deleteBefore that also passes the nodes that are equal in score
MutDeleteBefore(z, f, score, obj) ==
    f # NIL /\ z.nodes[f].score >= score

\* the condition of the inner loop of Delete's descent (lines 199-202)
deleteBefore(z, f, score, obj) ==
    f # NIL /\ (z.nodes[f].score > score \/
                (z.nodes[f].score = score /\ IsGreaterThan(z.nodes[f].Obj, obj)))

\* the inner loop of Delete's descent
RECURSIVE deleteForward(_, _, _, _, _)
deleteForward(z, x, i, score, obj) ==
    LET f == z.nodes[x].level[i].forward IN
    IF deleteBefore(z, f, score, obj)
    THEN deleteForward(z, f, i, score, obj)
    ELSE x

\* the outer loop of Delete's descent
RECURSIVE deleteDescend(_, _, _, _, _, _)
deleteDescend(z, x, i, update, score, obj) ==
    IF i < 0 THEN [x |-> x, update |-> update]
    ELSE LET y == deleteForward(z, x, i, score, obj)
         IN deleteDescend(z, y, i - 1, [update EXCEPT ![i] = y], score, obj)

\* deleteMatch that compares the score alone
MutDeleteMatch(z, x, score, obj) ==
    x # NIL /\ score = z.nodes[x].score

\* line 211: the candidate x is the element to delete
deleteMatch(z, x, score, obj) ==
    x # NIL /\ score = z.nodes[x].score /\ Uuid(z.nodes[x].Obj) = Uuid(obj)

Delete(z, score, obj) ==
    LET d == deleteDescend(z, HEAD, z.level - 1, [i \in LevelIdx |-> NIL], score, obj)
        x == z.nodes[d.x].level[0].forward
    IN IF deleteMatch(z, x, score, obj)
       THEN [z |-> deleteNode(z, x, d.update), ret |-> x]
       ELSE [z |-> z, ret |-> NIL]

\* ---- DeleteRangeByScore -------------------------------------------------------
\* the condition of the inner loop of the descent (line 284)
rangeScoreBefore(z, f, scoreMax) == f # NIL /\ z.nodes[f].score <= scoreMax

RECURSIVE rangeScoreForward(_, _, _, _)
rangeScoreForward(z, x, i, scoreMax) ==
    LET f == z.nodes[x].level[i].forward IN
    IF rangeScoreBefore(z, f, scoreMax)
    THEN rangeScoreForward(z, f, i, scoreMax)
    ELSE x

RECURSIVE rangeScoreDescend(_, _, _, _, _)
rangeScoreDescend(z, x, i, update, scoreMax) ==
    IF i < 0 THEN [x |-> x, update |-> update]
    ELSE LET y == rangeScoreForward(z, x, i, scoreMax)
         IN rangeScoreDescend(z, y, i - 1, [update EXCEPT ![i] = y], scoreMax)

\* the loop that deletes while in range (lines 295-300)
RECURSIVE rangeScoreDelete(_, _, _, _, _)
rangeScoreDelete(z, x, update, scoreMin, removed) ==
    IF x # NIL /\ z.nodes[x].score >= scoreMin
    THEN LET next == z.nodes[x].level[0].forward
         IN CHOOSE r \in {rangeScoreDelete(z1, next, update, scoreMin, removed + 1) :
                             z1 \in {deleteNode(z, x, update)}} : TRUE
    ELSE [z |-> z, ret |-> removed]

DeleteRangeByScore(z, scoreMax, scoreMin) ==
    LET d == rangeScoreDescend(z, HEAD, z.level - 1, [i \in LevelIdx |-> NIL], scoreMax)
    IN rangeScoreDelete(z, z.nodes[d.x].level[0].forward, d.update, scoreMin, 0)

\* ---- DeleteRangeByRank --------------------------------------------------------
\* rangeRankBefore that also passes the node of rank start
MutRangeRankBefore(z, x, i, tranversed, start) ==
    z.nodes[x].level[i].forward # NIL /\ tranversed + z.nodes[x].level[i].span <= start

\* the condition of the inner loop of the descent (line 311)
rangeRankBefore(z, x, i, tranversed, start) ==
    z.nodes[x].level[i].forward # NIL /\ tranversed + z.nodes[x].level[i].span < start

RECURSIVE rangeRankForward(_, _, _, _, _)
rangeRankForward(z, x, i, tranversed, start) ==
    IF rangeRankBefore(z, x, i, tranversed, start)
    THEN rangeRankForward(z, z.nodes[x].level[i].forward, i,
                          tranversed + z.nodes[x].level[i].span, start)
    ELSE [x |-> x, tranversed |-> tranversed]

RECURSIVE rangeRankDescend(_, _, _, _, _, _)
rangeRankDescend(z, x, i, update, tranversed, start) ==
    IF i < 0 THEN [x |-> x, update |-> update, tranversed |-> tranversed]
    ELSE LET w == rangeRankForward(z, x, i, tranversed, start)
         IN rangeRankDescend(z, w.x, i - 1, [update EXCEPT ![i] = w.x],
                             w.tranversed, start)

\* the loop that deletes while the rank is in range (lines 319-325)
RECURSIVE rangeRankDelete(_, _, _, _, _, _)
rangeRankDelete(z, x, update, tranversed, end, removed) ==
    IF x # NIL /\ tranversed <= end
    THEN LET next == z.nodes[x].level[0].forward
         IN CHOOSE r \in {rangeRankDelete(z1, next, update, tranversed + 1, end,
                                            removed + 1) :
                             z1 \in {deleteNode(z, x, update)}} : TRUE
    ELSE [z |-> z, ret |-> removed]

DeleteRangeByRank(z, start, end) ==
    LET d == rangeRankDescend(z, HEAD, z.level - 1, [i \in LevelIdx |-> NIL], 0, start)
    IN rangeRankDelete(z, z.nodes[d.x].level[0].forward, d.update,
                       d.tranversed + 1, end, 0)

\* ---- GetRank -----------------------------------------------------------------
\* rankNotAfter that stops in front of the object itself
MutRankNotAfter(z, f, score, obj) ==
    f # NIL /\ (z.nodes[f].score > score \/
                (z.nodes[f].score = score /\ IsGreaterThan(z.nodes[f].Obj, obj)))

\* the condition of the inner loop (lines 337-340): the node f is not
\* ordered after (score, obj)
rankNotAfter(z, f, score, obj) ==
    f # NIL /\ (z.nodes[f].score > score \/
                (z.nodes[f].score = score /\ ~IsGreaterThan(obj, z.nodes[f].Obj)))

RECURSIVE rankForward(_, _, _, _, _, _)
rankForward(z, x, i, rank, score, obj) ==
    LET f == z.nodes[x].level[i].forward IN
    IF rankNotAfter(z, f, score, obj)
    THEN rankForward(z, f, i, rank + z.nodes[x].level[i].span, score, obj)
    ELSE [x |-> x, rank |-> rank]

\* line 346: x holds the object that is looked for
rankMatch(z, x, obj) ==
    z.nodes[x].Obj # NilObj /\ Uuid(z.nodes[x].Obj) = Uuid(obj)

RECURSIVE rankDescend(_, _, _, _, _, _)
rankDescend(z, x, i, rank, score, obj) ==
    IF i < 0 THEN 0
    ELSE LET w == rankForward(z, x, i, rank, score, obj)
         IN IF rankMatch(z, w.x, obj)
            THEN w.rank
            ELSE rankDescend(z, w.x, i - 1, w.rank, score, obj)

GetRank(z, score, obj) == rankDescend(z, HEAD, z.level - 1, 0, score, obj)

\* ---- GetElementByRank ----------------------------------------------------------
\* elementWithin with < for <=
MutElementWithin(z, x, i, tranversed, rank) ==
    z.nodes[x].level[i].forward # NIL /\ tranversed + z.nodes[x].level[i].span < rank

\* the condition of the inner loop (line 359)
elementWithin(z, x, i, tranversed, rank) ==
    z.nodes[x].level[i].forward # NIL /\ tranversed + z.nodes[x].level[i].span <= rank

RECURSIVE elementForward(_, _, _, _, _)
elementForward(z, x, i, tranversed, rank) ==
    IF elementWithin(z, x, i, tranversed, rank)
    THEN elementForward(z, z.nodes[x].level[i].forward, i,
                        tranversed + z.nodes[x].level[i].span, rank)
    ELSE [x |-> x, tranversed |-> tranversed]

RECURSIVE elementDescend(_, _, _, _, _)
elementDescend(z, x, i, tranversed, rank) ==
    IF i < 0 THEN NIL
    ELSE LET w == elementForward(z, x, i, tranversed, rank)
         IN IF w.tranversed = rank THEN w.x
            ELSE elementDescend(z, w.x, i - 1, w.tranversed, rank)

GetElementByRank(z, rank) == elementDescend(z, HEAD, z.level - 1, 0, rank)

\* ---- IsInRange, FirstInRange, LastInRange ------------------------------------
\* what a method returns when it dereferences a nil node (the run panics)
PANIC == -2

\* IsInRange that tests the tail against the lower bound
MutIsInRange(z, scoreMax, scoreMin) ==
    LET first == z.nodes[HEAD].level[0].forward IN
    IF scoreMin > scoreMax THEN FALSE
    ELSE IF z.tail = NIL \/ z.nodes[z.tail].score < scoreMin THEN FALSE
    ELSE IF first = NIL \/ z.nodes[first].score < scoreMin THEN FALSE
    ELSE TRUE

\* lines 219-232
IsInRange(z, scoreMax, scoreMin) ==
    LET first == z.nodes[HEAD].level[0].forward IN
    IF scoreMin > scoreMax THEN FALSE
    ELSE IF z.tail = NIL \/ z.nodes[z.tail].score > scoreMax THEN FALSE
    ELSE IF first = NIL \/ z.nodes[first].score < scoreMin THEN FALSE
    ELSE TRUE

\* the descent of FirstInRange (lines 241-247): forward while the next node
\* is above scoreMax
RECURSIVE firstForward(_, _, _, _)
firstForward(z, x, i, scoreMax) ==
    LET f == z.nodes[x].level[i].forward IN
    IF f # NIL /\ z.nodes[f].score > scoreMax
    THEN firstForward(z, f, i, scoreMax)
    ELSE x

RECURSIVE firstDescend(_, _, _, _)
firstDescend(z, x, i, scoreMax) ==
    IF i < 0 THEN x
    ELSE firstDescend(z, firstForward(z, x, i, scoreMax), i - 1, scoreMax)

\* lines 236-254; line 238 hands the bounds to IsInRange as (scoreMin,
\* scoreMax); line 250 reads x.score without a test for nil
FirstInRange(z, scoreMax, scoreMin) ==
    IF ~IsInRange(z, scoreMin, scoreMax) THEN NIL
    ELSE LET x == z.nodes[firstDescend(z, HEAD, z.level - 1, scoreMax)].level[0].forward
         IN IF x = NIL THEN PANIC
            ELSE IF z.nodes[x].score < scoreMin THEN NIL
            ELSE x

\* the descent of LastInRange (lines 263-269): forward while the next node is
\* not below scoreMin
RECURSIVE lastForward(_, _, _, _)
lastForward(z, x, i, scoreMin) ==
    LET f == z.nodes[x].level[i].forward IN
    IF f # NIL /\ z.nodes[f].score >= scoreMin
    THEN lastForward(z, f, i, scoreMin)
    ELSE x

RECURSIVE lastDescend(_, _, _, _)
lastDescend(z, x, i, scoreMin) ==
    IF i < 0 THEN x
    ELSE lastDescend(z, lastForward(z, x, i, scoreMin), i - 1, scoreMin)

\* lines 258-276; line 260 hands the bounds to IsInRange as (scoreMin,
\* scoreMax)
LastInRange(z, scoreMax, scoreMin) ==
    IF ~IsInRange(z, scoreMin, scoreMax) THEN NIL
    ELSE LET x == lastDescend(z, HEAD, z.level - 1, scoreMin)
         IN IF z.nodes[x].score > scoreMax THEN NIL ELSE x

\* ---- GetNearValueRange ---------------------------------------------------------
\* lines 389-394: the objects met on the backward references from x, at most
\* up of them
RECURSIVE nearUp(_, _, _)
nearUp(z, x, up) ==
    IF x # NIL /\ up > 0
    THEN <<z.nodes[x].Obj>> \o nearUp(z, z.nodes[x].backward, up - 1)
    ELSE <<>>

\* lines 396-401: the objects met on the level-0 forward links from x, at
\* most down of them
RECURSIVE nearDown(_, _, _)
nearDown(z, x, down) ==
    IF x # NIL /\ down > 0
    THEN <<z.nodes[x].Obj>> \o nearDown(z, z.nodes[x].level[0].forward, down - 1)
    ELSE <<>>

\* lines 383-403; isnil tells the nil slice from a slice
GetNearValueRange(z, rank, up, down) ==
    LET target == GetElementByRank(z, rank) IN
    IF target = NIL THEN [isnil |-> TRUE, ranks |-> <<>>]
    ELSE [isnil |-> FALSE,
          ranks |-> nearUp(z, z.nodes[target].backward, up)
                    \o <<z.nodes[target].Obj>>
                    \o nearDown(z, z.nodes[target].level[0].forward, down)]

\* ---- GetTopRankValueRange ------------------------------------------------------
\* topWithin that stops one element early
MutTopWithin(x, n) == x # NIL /\ n > 1

\* line 374: the condition of the loop
topWithin(x, n) == x # NIL /\ n > 0

\* lines 374-378: the objects met on the level-0 forward links from x, at
\* most n of them
RECURSIVE topFrom(_, _, _)
topFrom(z, x, n) ==
    IF topWithin(x, n)
    THEN <<z.nodes[x].Obj>> \o topFrom(z, z.nodes[x].level[0].forward, n - 1)
    ELSE <<>>

\* lines 371-380
GetTopRankValueRange(z, n) == topFrom(z, z.nodes[HEAD].level[0].forward, n)

\* ---- Walk ----------------------------------------------------------------------
\* the visitors that Walk is given: one returns false on the objects whose
\* uid is in stop and true on the others
visitor(stop, rank, obj) == Uuid(obj) \notin stop

\* walkBreaks that never breaks
MutWalkBreaks(ret) == FALSE

\* line 410: the loop ends when the visitor returns false
walkBreaks(ret) == ~ret

\* lines 409-414: the calls of fn that the loop makes from node on
RECURSIVE walkFrom(_, _, _, _)
walkFrom(z, node, rank, stop) ==
    IF node = NIL THEN <<>>
    ELSE LET obj == z.nodes[node].Obj IN
         IF walkBreaks(visitor(stop, rank, obj))
         THEN <<[rank |-> rank, Obj |-> obj]>>
         ELSE <<[rank |-> rank, Obj |-> obj]>>
              \o walkFrom(z, z.nodes[node].level[0].forward, rank + 1, stop)

\* lines 406-416: the sequence of the calls fn(rank, obj) that Walk makes
Walk(z, stop) == walkFrom(z, z.nodes[HEAD].level[0].forward, 1, stop)

\* ---- the ascending variant (src/unnamed/part_004) -----------------------------
\* The list of part_004 is kept in ascending order and its RankInterface is
\* CompareTo.  Its deleteNode (lines 176-194), its GetElementByRank (lines
\* 360-373) and the part of Insert after the descent (lines 143-173) are, line
\* for line, those of src/zskiplist.go and are modelled by deleteNode,
\* GetElementByRank and insertAt above.

\* CompareTo of the objects (part_001, lines 46-73)
CompareTo(p, b) ==
    IF p.uid = b.uid THEN 0
    ELSE IF p.Populace < b.Populace THEN -1
    ELSE IF p.Populace > b.Populace THEN 1
    ELSE IF p.Level < b.Level THEN -1
    ELSE IF p.Level > b.Level THEN 1
    ELSE IF p.uid < b.uid THEN 1
    ELSE IF p.uid > b.uid THEN -1
    ELSE 0

\* the condition of the inner loop of Insert's descent (lines 130-133)
ascInsertBefore(z, f, score, obj) ==
    f # NIL /\ (z.nodes[f].score < score \/
                (z.nodes[f].score = score /\ CompareTo(z.nodes[f].Obj, obj) < 0))

RECURSIVE ascInsertForward(_, _, _, _, _, _)
ascInsertForward(z, x, i, r, score, obj) ==
    LET f == z.nodes[x].level[i].forward IN
    IF ascInsertBefore(z, f, score, obj)
    THEN ascInsertForward(z, f, i, r + z.nodes[x].level[i].span, score, obj)
    ELSE [x |-> x, rank |-> r]

RECURSIVE ascInsertDescend(_, _, _, _, _, _, _)
ascInsertDescend(z, x, i, update, rank, score, obj) ==
    IF i < 0 THEN [update |-> update, rank |-> rank]
    ELSE LET r0 == IF i # z.level - 1 THEN rank[i + 1] ELSE rank[i]
             w == ascInsertForward(z, x, i, r0, score, obj)
         IN ascInsertDescend(z, w.x, i - 1, [update EXCEPT ![i] = w.x],
                             [rank EXCEPT ![i] = w.rank], score, obj)

\* lines 120-174
AscInsert(z, score, obj, rlevel) ==
    insertAt(z, ascInsertDescend(z, HEAD, z.level - 1, [i \in LevelIdx |-> NIL],
                                 [i \in LevelIdx |-> 0], score, obj),
             score, obj, rlevel)

\* the condition of the inner loop of Delete's descent (lines 201-204)
ascDeleteBefore(z, f, score, obj) ==
    f # NIL /\ (z.nodes[f].score < score \/
                (z.nodes[f].score = score /\ CompareTo(z.nodes[f].Obj, obj) < 0))

RECURSIVE ascDeleteForward(_, _, _, _, _)
ascDeleteForward(z, x, i, score, obj) ==
    LET f == z.nodes[x].level[i].forward IN
    IF ascDeleteBefore(z, f, score, obj)
    THEN ascDeleteForward(z, f, i, score, obj)
    ELSE x

RECURSIVE ascDeleteDescend(_, _, _, _, _, _)
ascDeleteDescend(z, x, i, update, score, obj) ==
    IF i < 0 THEN [x |-> x, update |-> update]
    ELSE LET y == ascDeleteForward(z, x, i, score, obj)
         IN ascDeleteDescend(z, y, i - 1, [update EXCEPT ![i] = y], score, obj)

\* line 213
ascDeleteMatch(z, x, score, obj) ==
    x # NIL /\ score = z.nodes[x].score /\ CompareTo(z.nodes[x].Obj, obj) = 0

\* lines 197-218
AscDelete(z, score, obj) ==
    LET d == ascDeleteDescend(z, HEAD, z.level - 1, [i \in LevelIdx |-> NIL], score, obj)
        x == z.nodes[d.x].level[0].forward
    IN IF ascDeleteMatch(z, x, score, obj)
       THEN [z |-> deleteNode(z, x, d.update), ret |-> x]
       ELSE [z |-> z, ret |-> NIL]

\* the condition of the inner loop of DeleteRangeByScore's descent (line 290)
ascRangeScoreBefore(z, f, min) ==
    f # NIL /\ z.nodes[f].score <= min

RECURSIVE ascRangeScoreForward(_, _, _, _)
ascRangeScoreForward(z, x, i, min) ==
    LET f == z.nodes[x].level[i].forward IN
    IF ascRangeScoreBefore(z, f, min)
    THEN ascRangeScoreForward(z, f, i, min)
    ELSE x

RECURSIVE ascRangeScoreDescend(_, _, _, _, _)
ascRangeScoreDescend(z, x, i, update, min) ==
    IF i < 0 THEN [x |-> x, update |-> update]
    ELSE LET y == ascRangeScoreForward(z, x, i, min)
         IN ascRangeScoreDescend(z, y, i - 1, [update EXCEPT ![i] = y], min)

\* ascRangeScoreWithin that leaves out the upper bound
MutAscRangeScoreWithin(z, x, max) ==
    x # NIL /\ z.nodes[x].score < max

\* the condition of the loop that deletes (line 301)
ascRangeScoreWithin(z, x, max) ==
    x # NIL /\ z.nodes[x].score <= max

\* the loop that deletes while in range (lines 301-306)
RECURSIVE ascRangeScoreDelete(_, _, _, _, _)
ascRangeScoreDelete(z, x, update, max, removed) ==
    IF ascRangeScoreWithin(z, x, max)
    THEN LET next == z.nodes[x].level[0].forward
         IN CHOOSE r \in {ascRangeScoreDelete(z1, next, update, max, removed + 1) :
                             z1 \in {deleteNode(z, x, update)}} : TRUE
    ELSE [z |-> z, ret |-> removed]

\* lines 286-308
AscDeleteRangeByScore(z, min, max) ==
    LET d == ascRangeScoreDescend(z, HEAD, z.level - 1, [i \in LevelIdx |-> NIL], min)
    IN ascRangeScoreDelete(z, z.nodes[d.x].level[0].forward, d.update, max, 0)

\* ascRankNotAfter that stops in front of the object itself
MutAscRankNotAfter(z, f, score, obj) ==
    f # NIL /\ (z.nodes[f].score < score \/
                (z.nodes[f].score = score /\ CompareTo(z.nodes[f].Obj, obj) < 0))

\* the condition of the inner loop of GetRank (lines 342-345)
ascRankNotAfter(z, f, score, obj) ==
    f # NIL /\ (z.nodes[f].score < score \/
                (z.nodes[f].score = score /\ CompareTo(z.nodes[f].Obj, obj) <= 0))

RECURSIVE ascRankForward(_, _, _, _, _, _)
ascRankForward(z, x, i, rank, score, obj) ==
    LET f == z.nodes[x].level[i].forward IN
    IF ascRankNotAfter(z, f, score, obj)
    THEN ascRankForward(z, f, i, rank + z.nodes[x].level[i].span, score, obj)
    ELSE [x |-> x, rank |-> rank]

\* line 351
ascRankMatch(z, x, obj) ==
    z.nodes[x].Obj # NilObj /\ CompareTo(z.nodes[x].Obj, obj) = 0

RECURSIVE ascRankDescend(_, _, _, _, _, _)
ascRankDescend(z, x, i, rank, score, obj) ==
    IF i < 0 THEN 0
    ELSE LET w == ascRankForward(z, x, i, rank, score, obj)
         IN IF ascRankMatch(z, w.x, obj)
            THEN w.rank
            ELSE ascRankDescend(z, w.x, i - 1, w.rank, score, obj)

\* lines 338-356
AscGetRank(z, score, obj) == ascRankDescend(z, HEAD, z.level - 1, 0, score, obj)

\* lines 413-421: the calls of fn from node on, on the backward references
RECURSIVE ascWalkFromTail(_, _, _, _)
ascWalkFromTail(z, node, rank, stop) ==
    IF node = NIL THEN <<>>
    ELSE LET obj == z.nodes[node].Obj IN
         IF ~visitor(stop, rank, obj)
         THEN <<[rank |-> rank, Obj |-> obj]>>
         ELSE <<[rank |-> rank, Obj |-> obj]>>
              \o ascWalkFromTail(z, z.nodes[node].backward, rank + 1, stop)

\* lines 425-431: the calls of fn from node on, on the level-0 forward links
RECURSIVE ascWalkFromHead(_, _, _, _)
ascWalkFromHead(z, node, rank, stop) ==
    IF node = NIL THEN <<>>
    ELSE LET obj == z.nodes[node].Obj IN
         IF ~visitor(stop, rank, obj)
         THEN <<[rank |-> rank, Obj |-> obj]>>
         ELSE <<[rank |-> rank, Obj |-> obj]>>
              \o ascWalkFromHead(z, z.nodes[node].level[0].forward, rank - 1, stop)

\* ascWalkHeadRank that counts up from 1
MutAscWalkHeadRank(z) == 1

\* line 423: the rank given to the first node of a walk from head
ascWalkHeadRank(z) == z.length

\* lines 411-433: the sequence of the calls fn(rank, obj) that Walk makes
AscWalk(z, startTail, stop) ==
    IF startTail
    THEN ascWalkFromTail(z, z.tail, 1, stop)
    ELSE ascWalkFromHead(z, z.nodes[HEAD].level[0].forward, ascWalkHeadRank(z), stop)

\* ---- the variant with IsContains (src/unnamed/part_003) ---------------------------
\* The list of part_003 is in descending order as that of src/zskiplist.go;
\* its RankObjectInterface is IsGreaterThan + IsEqualTo and its Delete returns
\* a bool.  Its Insert (lines 114-171) and its deleteNode (lines 196-214) are,
\* line for line, those of src/zskiplist.go and are modelled by Insert and
\* deleteNode above.

\* IsEqualTo of the test objects
IsEqualTo(p, rhs) == p.uid = rhs.uid

\* lines 178-180: the condition of the inner loop of findGreaterThan
findBefore(z, f, score, obj) ==
    f # NIL /\ (z.nodes[f].score > score \/
                (z.nodes[f].score = score /\ IsGreaterThan(z.nodes[f].Obj, obj)))

\* lines 177-185
RECURSIVE findForward(_, _, _, _, _)
findForward(z, x, i, score, obj) ==
    LET f == z.nodes[x].level[i].forward IN
    IF findBefore(z, f, score, obj)
    THEN findForward(z, f, i, score, obj)
    ELSE x

\* lines 176-189; update is filled whether or not the caller passed one,
\* and IsContains, which passes nil, does not read it
RECURSIVE findDescend(_, _, _, _, _, _)
findDescend(z, x, i, update, score, obj) ==
    IF i < 0 THEN [x |-> x, update |-> update]
    ELSE LET y == findForward(z, x, i, score, obj)
         IN findDescend(z, y, i - 1, [update EXCEPT ![i] = y], score, obj)

\* lines 174-194: the node behind the last node that is ordered before
\* (score, obj), and the per-level predecessors
findGreaterThan(z, score, obj) ==
    LET d == findDescend(z, HEAD, z.level - 1, [i \in LevelIdx |-> NIL], score, obj)
    IN [x |-> z.nodes[d.x].level[0].forward, update |-> d.update]

\* findMatch that compares the identity alone
MutFindMatch(z, x, score, obj) ==
    x # NIL /\ IsEqualTo(z.nodes[x].Obj, obj)

\* lines 222 and 232: the candidate x is the element looked for
findMatch(z, x, score, obj) ==
    x # NIL /\ score = z.nodes[x].score /\ IsEqualTo(z.nodes[x].Obj, obj)

\* lines 217-227
EqDelete(z, score, obj) ==
    LET d == findGreaterThan(z, score, obj) IN
    IF findMatch(z, d.x, score, obj)
    THEN [z |-> deleteNode(z, d.x, d.update), ret |-> TRUE]
    ELSE [z |-> z, ret |-> FALSE]

\* lines 230-236
IsContains(z, score, obj) ==
    findMatch(z, findGreaterThan(z, score, obj).x, score, obj)

\* ---- the calls ---------------------------------------------------------------
\* op when no query has been made since the last mutation
NoQuery == [name |-> "none", score |-> 0, obj |-> NilObj, rank |-> 0, ret |-> NIL]

LiveUids == {Uuid(e.Obj) : e \in set}

\* the (score, object) arguments of Delete and GetRank: an object that is
\* inside the list is the one object with that uid and comes with any score,
\* an object that is not inside comes with its own score
CallerArgs ==
    {a \in [score : Scores, obj : testPlayer] :
        IF Uuid(a.obj) \in LiveUids
        THEN \E e \in set : e.Obj = a.obj
        ELSE a.obj.Populace = a.score}

\* the objects a caller can insert: those that are not inside
FreeObjs == {o \in testPlayer : Uuid(o) \notin LiveUids}

\* the ranks that GetElementByRank is called with
RankArgs == (-1)..(MaxUid + 1)

\* the bounds that DeleteRangeByRank is called with
RangeRanks == 0..MaxUid

\* the elements that are still inside after a range delete
Remaining(z) == {e \in set : Uuid(e.Obj) \in DOMAIN z.nodes}

Init ==
    /\ zsl = NewZSkipList(0)
    /\ set = {}
    /\ op = NoQuery

\* zsl.Insert(v.Populace, v) of an object that is not inside; the level is
\* what randLevel draws from the seed
CallInsert ==
    \E obj \in FreeObjs, rlevel \in DrawnLevels :
        /\ zsl' = Insert(zsl, obj.Populace, obj, rlevel).z
        /\ set' = set \cup {[score |-> obj.Populace, Obj |-> obj]}
        /\ op' = NoQuery

\* zsl.Delete(score, obj); the caller drops the pair from its index when a
\* node comes back
CallDelete ==
    \E a \in CallerArgs :
        LET r == Delete(zsl, a.score, a.obj) IN
            /\ zsl' = r.z
            /\ set' = IF r.ret # NIL THEN set \ {[score |-> a.score, Obj |-> a.obj]}
                      ELSE set
            /\ op' = NoQuery

CallDeleteRangeByScore ==
    \E scoreMax \in Scores, scoreMin \in Scores :
        LET r == DeleteRangeByScore(zsl, scoreMax, scoreMin) IN
            /\ zsl' = r.z
            /\ set' = Remaining(r.z)
            /\ op' = NoQuery

CallDeleteRangeByRank ==
    \E start \in RangeRanks, end \in RangeRanks :
        LET r == DeleteRangeByRank(zsl, start, end) IN
            /\ zsl' = r.z
            /\ set' = Remaining(r.z)
            /\ op' = NoQuery

CallGetRank ==
    \E a \in CallerArgs :
        /\ op' = [name |-> "GetRank", score |-> a.score, obj |-> a.obj,
                  rank |-> 0, ret |-> GetRank(zsl, a.score, a.obj)]
        /\ UNCHANGED <<zsl, set>>

CallGetElementByRank ==
    \E rank \in RankArgs :
        /\ op' = [name |-> "GetElementByRank", score |-> 0, obj |-> NilObj,
                  rank |-> rank, ret |-> GetElementByRank(zsl, rank)]
        /\ UNCHANGED <<zsl, set>>

\* Insert and Delete
Mutate ==
    \/ CallInsert
    \/ CallDelete

\* every mutation
MutateAll ==
    \/ CallInsert
    \/ CallDelete
    \/ CallDeleteRangeByScore
    \/ CallDeleteRangeByRank

Next ==
    \/ CallInsert
    \/ CallDelete
    \/ CallDeleteRangeByScore
    \/ CallDeleteRangeByRank
    \/ CallGetRank
    \/ CallGetElementByRank

\* every call, mutations and queries
Spec == Init /\ [][Next]_vars

\* sequences of Insert and Delete calls
SpecMutate == Init /\ [][Mutate]_vars

\* sequences of mutations; the queries change neither zsl nor set, so the
\* states of zsl and set are those of Spec
SpecMutateAll == Init /\ [][MutateAll]_vars

\* zsl.Delete(v.Populace, v) of an element that is inside, as the tests call
\* it
CallDeleteLive ==
    \E e \in set :
        LET r == Delete(zsl, e.score, e.Obj) IN
            /\ zsl' = r.z
            /\ set' = IF r.ret # NIL THEN set \ {e} ELSE set
            /\ op' = NoQuery

\* the calls of the tests: Insert of an object that is not inside, Delete
\* of an element that is
MutateLive ==
    \/ CallInsert
    \/ CallDeleteLive

\* sequences of the calls of the tests
SpecLive == Init /\ [][MutateLive]_vars

\* ---- the calls on a list that draws its levels from the seed -----------------
\* the seeds that NewZSkipList is given; from the first one randNext returns
\* a value below the threshold of randLevel twelve times in a row
SeedList == <<31599745, 0, 3, 1>>

Seeds == {SeedList[k] : k \in 1..(IF MaxSeed < Len(SeedList) THEN MaxSeed ELSE Len(SeedList))}

\* the seed that is left after k calls of randLevel
RECURSIVE seedAfter(_, _)
seedAfter(seed, k) == IF k = 0 THEN seed ELSE seedAfter(randLevel(seed).seed, k - 1)

\* the seeds of the lists that can still draw a level: those that are fewer
\* than MaxInserts draws away from a seed of Seeds
DrawSeeds == {seedAfter(toSeed(s), k) : s \in Seeds, k \in 0..(MaxInserts - 1)}

InitRand ==
    /\ zsl \in {NewZSkipList(s) : s \in Seeds}
    /\ set = {}
    /\ op = NoQuery

\* zsl.Insert(v.Populace, v) of an object that is not inside
CallInsertRand ==
    /\ zsl.seed \in DrawSeeds
    /\ \E obj \in FreeObjs :
        /\ zsl' = InsertRand(zsl, obj.Populace, obj).z
        /\ set' = set \cup {[score |-> obj.Populace, Obj |-> obj]}
        /\ op' = NoQuery

MutateRand ==
    \/ CallInsertRand
    \/ CallDeleteLive

\* sequences of the calls of the tests on a list made with a seed
SpecRand == InitRand /\ [][MutateRand]_vars

\* ---- the calls on the ascending variant ----------------------------------------
\* zsl.Insert(v.Populace, v) on the ascending list
AscCallInsert ==
    \E obj \in FreeObjs, rlevel \in DrawnLevels :
        /\ zsl' = AscInsert(zsl, obj.Populace, obj, rlevel).z
        /\ set' = set \cup {[score |-> obj.Populace, Obj |-> obj]}
        /\ op' = NoQuery

\* zsl.Delete(score, obj) on the ascending list
AscCallDelete ==
    \E a \in CallerArgs :
        LET r == AscDelete(zsl, a.score, a.obj) IN
            /\ zsl' = r.z
            /\ set' = IF r.ret # NIL THEN set \ {[score |-> a.score, Obj |-> a.obj]}
                      ELSE set
            /\ op' = NoQuery

AscMutate ==
    \/ AscCallInsert
    \/ AscCallDelete

\* sequences of Insert and Delete calls on the ascending list
SpecAsc == Init /\ [][AscMutate]_vars

\* ---- the calls on the variant with IsContains ---------------------------------
\* zsl.Delete(score, obj) of part_003; the caller drops the pair from its
\* index when the call returns true
EqCallDelete ==
    \E a \in CallerArgs :
        LET r == EqDelete(zsl, a.score, a.obj) IN
            /\ zsl' = r.z
            /\ set' = IF r.ret THEN set \ {[score |-> a.score, Obj |-> a.obj]}
                      ELSE set
            /\ op' = NoQuery

EqMutate ==
    \/ CallInsert
    \/ EqCallDelete

\* sequences of Insert and Delete calls on the list of part_003
SpecEq == Init /\ [][EqMutate]_vars

\* ---- the calls of a caller that reads the list ----------------------------------
\* Here op is the answer of the last call while the caller has not taken it:
\* every call is made when no answer is pending.  The lists that are read
\* have at most MaxRead elements.

\* the result of the read-only method name with the arguments args on z
Answer(z, name, args) ==
    CASE name = "Len" -> ListLen(z)
      [] name = "Height" -> Height(z)
      [] name = "IsInRange" -> IsInRange(z, args[1], args[2])
      [] name = "FirstInRange" -> FirstInRange(z, args[1], args[2])
      [] name = "LastInRange" -> LastInRange(z, args[1], args[2])
      [] name = "GetRank" -> GetRank(z, args[1], args[2])
      [] name = "GetElementByRank" -> GetElementByRank(z, args[1])
      [] name = "GetTopRankValueRange" -> GetTopRankValueRange(z, args[1])
      [] name = "GetNearValueRange" -> GetNearValueRange(z, args[1], args[2], args[3])
      [] name = "Walk" -> Walk(z, args[1])

\* a read-only method is called and answers; it assigns to no field of the
\* list or of a node
Read(name, args) ==
    /\ op.name = "none"
    /\ op' = [name |-> name, args |-> args, ret |-> Answer(zsl, name, args)]
    /\ UNCHANGED <<zsl, set>>

ReadLen == Read("Len", <<>>)

ReadHeight == Read("Height", <<>>)

ReadIsInRange == \E scoreMax \in Scores, scoreMin \in Scores :
                    Read("IsInRange", <<scoreMax, scoreMin>>)

ReadFirstInRange == \E scoreMax \in Scores, scoreMin \in Scores :
                       Read("FirstInRange", <<scoreMax, scoreMin>>)

ReadLastInRange == \E scoreMax \in Scores, scoreMin \in Scores :
                      Read("LastInRange", <<scoreMax, scoreMin>>)

ReadGetRank == \E a \in CallerArgs : Read("GetRank", <<a.score, a.obj>>)

ReadGetElementByRank == \E rank \in RankArgs : Read("GetElementByRank", <<rank>>)

ReadGetTopRankValueRange == \E n \in 0..(MaxRead + 1) : Read("GetTopRankValueRange", <<n>>)

ReadGetNearValueRange == \E rank \in 0..(MaxRead + 1), near \in 0..MaxRead :
                            Read("GetNearValueRange", <<rank, near, near>>)

\* Walk whose visitor calls back into the list: it deletes the first element
\* it is shown
MutReadWalk ==
    /\ op.name = "none"
    /\ \E stop \in {{}} \cup {{u} : u \in Uids} :
          LET calls == Walk(zsl, stop) IN
          /\ op' = [name |-> "Walk", args |-> <<stop>>, ret |-> calls]
          /\ zsl' = IF calls = <<>> THEN zsl
                    ELSE Delete(zsl, calls[1].Obj.Populace, calls[1].Obj).z
          /\ set' = set

\* Walk with a visitor that returns false on the objects whose uid is in stop
\* and does nothing else
ReadWalk == \E stop \in {{}} \cup {{u} : u \in Uids} : Read("Walk", <<stop>>)

\* the caller takes the answer
TakeAnswer ==
    /\ op.name # "none"
    /\ op' = NoQuery
    /\ UNCHANGED <<zsl, set>>

ReadInsert == op.name = "none" /\ ListLen(zsl) < MaxRead /\ CallInsert

ReadDelete == op.name = "none" /\ CallDeleteLive

ReadNext ==
    \/ ReadInsert
    \/ ReadDelete
    \/ ReadLen
    \/ ReadHeight
    \/ ReadIsInRange
    \/ ReadFirstInRange
    \/ ReadLastInRange
    \/ ReadGetRank
    \/ ReadGetElementByRank
    \/ ReadGetTopRankValueRange
    \/ ReadGetNearValueRange
    \/ ReadWalk
    \/ TakeAnswer

\* Insert and Delete calls with read-only calls in between
SpecRead == Init /\ [][ReadNext]_vars

\* ---- Insert and Delete write by write ----------------------------------------
\* one write of Insert (lines 142-170) or of deleteNode (lines 175-191) to
\* the list z; c holds the locals of the call: the node x, update, rank and
\* the level drawn, w names the statement and its level i.  "drop" is the
\* moment the deleted node is referenced by the list no more.
applyWrite(z, c, w) ==
    LET x == c.x
        i == w.i
        u == c.update[i]
        crossed == c.rank[0] - c.rank[i]
    IN CASE w.kind = "headSpan" ->
              [z EXCEPT !.nodes[HEAD].level[i].span = z.length]
         [] w.kind = "level" -> [z EXCEPT !.level = c.rlevel]
         [] w.kind = "alloc" ->
              [z EXCEPT !.nodes = z.nodes @@ (x :> newZSkipListNode(c.rlevel, c.score, c.obj))]
         [] w.kind = "xForward" ->
              [z EXCEPT !.nodes[x].level[i].forward = z.nodes[u].level[i].forward]
         [] w.kind = "uForward" -> [z EXCEPT !.nodes[u].level[i].forward = x]
         [] w.kind = "xSpan" ->
              [z EXCEPT !.nodes[x].level[i].span = z.nodes[u].level[i].span - crossed]
         [] w.kind = "uSpan" -> [z EXCEPT !.nodes[u].level[i].span = crossed + 1]
         [] w.kind = "untouched" -> [z EXCEPT !.nodes[u].level[i].span = @ + 1]
         [] w.kind = "xBackward" -> [z EXCEPT !.nodes[x].backward = c.update[0]]
         [] w.kind = "nextBackward" ->
              [z EXCEPT !.nodes[z.nodes[x].level[0].forward].backward = x]
         [] w.kind = "tail" -> [z EXCEPT !.tail = x]
         [] w.kind = "length" -> [z EXCEPT !.length = @ + 1]
         [] w.kind = "bypassSpan" ->
              [z EXCEPT !.nodes[u].level[i].span = @ + z.nodes[x].level[i].span - 1]
         [] w.kind = "bypassForward" ->
              [z EXCEPT !.nodes[u].level[i].forward = z.nodes[x].level[i].forward]
         [] w.kind = "passSpan" -> [z EXCEPT !.nodes[u].level[i].span = @ - 1]
         [] w.kind = "nextBackwardDel" ->
              [z EXCEPT !.nodes[z.nodes[x].level[0].forward].backward =
                           z.nodes[x].backward]
         [] w.kind = "tailDel" -> [z EXCEPT !.tail = z.nodes[x].backward]
         [] w.kind = "levelDec" -> [z EXCEPT !.level = @ - 1]
         [] w.kind = "lengthDec" -> [z EXCEPT !.length = @ - 1]
         [] w.kind = "drop" ->
              [z EXCEPT !.nodes = [n \in DOMAIN z.nodes \ {x} |-> z.nodes[n]]]

\* the list after the writes prog, made in this order to z
RECURSIVE runWrites(_, _, _)
runWrites(z, c, prog) ==
    IF prog = <<>> THEN z
    ELSE LET z1 == CHOOSE r \in {applyWrite(z, c, Head(prog))} : TRUE
         IN runWrites(z1, c, Tail(prog))

\* writesAt that leaves the statements out
MutWritesAt(k, from, to) == <<>>

\* the write k at each of the levels from, ..., to - 1 in rising order
writesAt(k, from, to) ==
    [j \in 1..(IF to > from THEN to - from ELSE 0) |-> [kind |-> k, i |-> from + j - 1]]

\* the writes of Insert (lines 142-170) in the order of the statements, and
\* the locals c they use; the descent before them writes nothing
insertProgram(z, score, obj, rlevel) ==
    LET d == insertDescend(z, HEAD, z.level - 1, [i \in LevelIdx |-> NIL],
                           [i \in LevelIdx |-> 0], score, obj)
        grow == rlevel > z.level
        level1 == IF grow THEN rlevel ELSE z.level
        c == [x |-> Uuid(obj), score |-> score, obj |-> obj, rlevel |-> rlevel,
              rank |-> d.rank,
              update |-> [i \in LevelIdx |->
                            IF grow /\ i >= z.level /\ i < rlevel THEN HEAD
                            ELSE d.update[i]]]
        links == [j \in 1..(4 * rlevel) |->
                    [kind |-> <<"xForward", "uForward", "xSpan", "uSpan">>[((j - 1) % 4) + 1],
                     i |-> (j - 1) \div 4]]
    IN [c |-> c,
        prog |->
          (IF grow THEN writesAt("headSpan", z.level, rlevel)
                        \o <<[kind |-> "level", i |-> 0]>>
           ELSE <<>>)
          \o <<[kind |-> "alloc", i |-> 0]>>
          \o links
          \o writesAt("untouched", rlevel, level1)
          \o (IF d.update[0] # HEAD THEN <<[kind |-> "xBackward", i |-> 0]>> ELSE <<>>)
          \o (IF z.nodes[d.update[0]].level[0].forward # NIL
              THEN <<[kind |-> "nextBackward", i |-> 0]>>
              ELSE <<[kind |-> "tail", i |-> 0]>>)
          \o <<[kind |-> "length", i |-> 0]>>]

\* the writes of deleteNode(x, update) (lines 175-191) in the order of the
\* statements, and the locals c they use
deleteProgram(z, x, update) ==
    LET c == [x |-> x, update |-> update, rank |-> [i \in LevelIdx |-> 0],
              rlevel |-> 0, score |-> 0, obj |-> NilObj]
        \* two writes when the link leads to x (lines 177-178), one
        \* otherwise (line 180)
        unlink == [j \in 1..(2 * z.level) |->
                     LET i == (j - 1) \div 2 IN
                     IF z.nodes[update[i]].level[i].forward = x
                     THEN [kind |-> IF j % 2 = 1 THEN "bypassSpan" ELSE "bypassForward",
                           i |-> i]
                     ELSE [kind |-> IF j % 2 = 1 THEN "passSpan" ELSE "skip", i |-> i]]
        written(w) == w.kind # "skip"
        part1 == SelectSeq(unlink, written)
                 \o (IF z.nodes[x].level[0].forward # NIL
                     THEN <<[kind |-> "nextBackwardDel", i |-> 0]>>
                     ELSE <<[kind |-> "tailDel", i |-> 0]>>)
        \* the loop of lines 188-190 runs on the list that these writes leave
        z1 == runWrites(z, c, part1)
        drops == z1.level - shrinkLevel(z1.nodes, z1.level)
    IN [c |-> c,
        prog |-> part1
                 \o [j \in 1..drops |-> [kind |-> "levelDec", i |-> 0]]
                 \o <<[kind |-> "lengthDec", i |-> 0], [kind |-> "drop", i |-> 0]>>]

\* ---- the calls of a reader between the writes of a mutation -------------------
\* op while a mutation is between two of its writes holds the call, the list
\* before it, the locals c of the call, the writes todo that remain, and the
\* read made since the last write
NoRead == [name |-> "none", ret |-> NIL]

\* zsl.Insert(v.Populace, v) begins and makes its first write
StartInsert ==
    /\ op.name = "none"
    /\ ListLen(zsl) < MaxRead
    /\ \E obj \in FreeObjs, rlevel \in DrawnLevels :
          LET p == insertProgram(zsl, obj.Populace, obj, rlevel) IN
             /\ zsl' = applyWrite(zsl, p.c, Head(p.prog))
             /\ op' = [name |-> "writing", call |-> "Insert", before |-> zsl,
                       e |-> [score |-> obj.Populace, Obj |-> obj], c |-> p.c,
                       todo |-> Tail(p.prog), read |-> NoRead]
    /\ UNCHANGED set

\* zsl.Delete(v.Populace, v) of an element that is inside finds its node and
\* deleteNode makes its first write
StartDelete ==
    /\ op.name = "none"
    /\ \E e \in set :
          LET d == deleteDescend(zsl, HEAD, zsl.level - 1, [i \in LevelIdx |-> NIL],
                                 e.score, e.Obj)
              x == zsl.nodes[d.x].level[0].forward
              p == deleteProgram(zsl, x, d.update)
          IN /\ deleteMatch(zsl, x, e.score, e.Obj)
             /\ zsl' = applyWrite(zsl, p.c, Head(p.prog))
             /\ op' = [name |-> "writing", call |-> "Delete", before |-> zsl,
                       e |-> e, c |-> p.c, todo |-> Tail(p.prog), read |-> NoRead]
    /\ UNCHANGED set

\* the mutation makes its next write; with the last one the call returns
\* and the caller updates its index
WriteStep ==
    /\ op.name = "writing"
    /\ zsl' = applyWrite(zsl, op.c, Head(op.todo))
    /\ IF Len(op.todo) = 1
       THEN /\ op' = NoQuery
            /\ set' = IF op.call = "Insert" THEN set \cup {op.e} ELSE set \ {op.e}
       ELSE /\ op' = [op EXCEPT !.todo = Tail(@), !.read = NoRead]
            /\ UNCHANGED set

\* a reader's GetRank of the element that the mutation inserts or deletes
\* runs between two writes of the mutation
GetRankBetween ==
    /\ op.name = "writing"
    /\ op.read.name = "none"
    /\ op' = [op EXCEPT !.read = [name |-> "GetRank", e |-> op.e,
                                  ret |-> GetRank(zsl, op.e.score, op.e.Obj)]]
    /\ UNCHANGED <<zsl, set>>

\* a reader's GetElementByRank runs between two writes of the mutation
GetElementByRankBetween ==
    /\ op.name = "writing"
    /\ op.read.name = "none"
    /\ \E rank \in 1..MaxRead :
          op' = [op EXCEPT !.read = [name |-> "GetElementByRank", rank |-> rank,
                                     ret |-> GetElementByRank(zsl, rank)]]
    /\ UNCHANGED <<zsl, set>>

WritesNext ==
    \/ StartInsert
    \/ StartDelete
    \/ WriteStep
    \/ GetRankBetween
    \/ GetElementByRankBetween

\* Insert and Delete calls of one writer, write by write, and the calls of a
\* reader that run whole between two writes
SpecWrites == Init /\ [][WritesNext]_vars

\* ---- the example program (part_001, lines 75-111) -----------------------------
\* the players of the example
p1 == [uid |-> 1001, Populace |-> 2012, Level |-> 12]   \* jack
p2 == [uid |-> 1002, Populace |-> 2015, Level |-> 13]   \* tom
p3 == [uid |-> 1003, Populace |-> 2014, Level |-> 14]   \* mike

\* p1 after p1.score += 100
p1Changed == [p1 EXCEPT !.Populace = 2112]

\* the levels randLevel can return
RandLevels == 1..ZSKIPLIST_MAXLEVEL

\* the element of the presence index for an object
Entry(p) == [score |-> p.Populace, Obj |-> p]

\* op after a call of the example program
Called(name, p, ret) ==
    [name |-> name, score |-> p.Populace, obj |-> p, rank |-> 0, ret |-> ret]

\* zsl.Insert(p1.score, p1)
MainInsertP1 ==
    /\ set = {}
    /\ \E rlevel \in RandLevels :
          /\ zsl' = AscInsert(zsl, p1.Populace, p1, rlevel).z
          /\ set' = {Entry(p1)}
          /\ op' = Called("Insert", p1, Uuid(p1))

\* zsl.Insert(p2.score, p2)
MainInsertP2 ==
    /\ set = {Entry(p1)}
    /\ op.name = "Insert"
    /\ \E rlevel \in RandLevels :
          /\ zsl' = AscInsert(zsl, p2.Populace, p2, rlevel).z
          /\ set' = set \cup {Entry(p2)}
          /\ op' = Called("Insert", p2, Uuid(p2))

\* zsl.Insert(p3.score, p3)
MainInsertP3 ==
    /\ set = {Entry(p1), Entry(p2)}
    /\ \E rlevel \in RandLevels :
          /\ zsl' = AscInsert(zsl, p3.Populace, p3, rlevel).z
          /\ set' = set \cup {Entry(p3)}
          /\ op' = Called("Insert", p3, Uuid(p3))

\* zsl.Delete(p1.score, p1)
MainDeleteP1 ==
    /\ set = {Entry(p1), Entry(p2), Entry(p3)}
    /\ LET r == AscDelete(zsl, p1.Populace, p1) IN
          /\ zsl' = r.z
          /\ set' = IF r.ret # NIL THEN set \ {Entry(p1)} ELSE set
          /\ op' = Called("Delete", p1, r.ret)

\* p1.score += 100; zsl.Insert(p1.score, p1)
MainInsertP1Changed ==
    /\ op.name = "Delete"
    /\ op.ret # NIL
    /\ \E rlevel \in RandLevels :
          /\ zsl' = AscInsert(zsl, p1Changed.Populace, p1Changed, rlevel).z
          /\ set' = set \cup {Entry(p1Changed)}
          /\ op' = Called("Insert", p1Changed, Uuid(p1Changed))

\* zsl.DeleteRangeByScore(2013, 2015) on the list of the three players
MainDeleteRangeByScore ==
    /\ set = {Entry(p1), Entry(p2), Entry(p3)}
    /\ LET r == AscDeleteRangeByScore(zsl, 2013, 2015) IN
          /\ zsl' = r.z
          /\ set' = Remaining(r.z)
          /\ op' = Called("DeleteRangeByScore", NilObj, r.ret)

Main ==
    \/ MainInsertP1
    \/ MainInsertP2
    \/ MainInsertP3
    \/ MainDeleteP1
    \/ MainInsertP1Changed
    \/ MainDeleteRangeByScore

\* the example program on the ascending list, with every level that
\* randLevel can return for each Insert
SpecMain == Init /\ [][Main]_vars


\* ---- reference model -----------------------------------------------------------
\* the element that node n holds
Elem(z, n) == [score |-> z.nodes[n].score, Obj |-> z.nodes[n].Obj]

\* the nodes met by following the level-i forward links from n, at most fuel
\* of them
RECURSIVE chainFrom(_, _, _, _)
chainFrom(z, n, i, fuel) ==
    IF n = NIL \/ fuel = 0 \/ n \notin DOMAIN z.nodes THEN <<>>
    ELSE IF i \notin DOMAIN z.nodes[n].level THEN <<n>>
    ELSE <<n>> \o chainFrom(z, z.nodes[n].level[i].forward, i, fuel - 1)

\* the level-i chain of the list, head excluded
LevelChain(z, i) == chainFrom(z, z.nodes[HEAD].level[i].forward, i, MaxUid + 2)

Elems(z, chain) == [k \in 1..Len(chain) |-> Elem(z, chain[k])]

Range(seq) == {seq[k] : k \in 1..Len(seq)}

\* the position of x in seq, 0 when it is not there
PosIn(seq, x) ==
    IF \E k \in 1..Len(seq) : seq[k] = x
    THEN CHOOSE k \in 1..Len(seq) : seq[k] = x
    ELSE 0

\* the total order of the elements: score first, then the objects' order
Precedes(a, b) ==
    a.score > b.score \/ (a.score = b.score /\ IsGreaterThan(a.Obj, b.Obj))

\* the reference sort of a set of elements
RECURSIVE RefSort(_)
RefSort(S) ==
    IF S = {} THEN <<>>
    ELSE LET m == CHOOSE e \in S : \A f \in S \ {e} : Precedes(e, f)
         IN <<m>> \o RefSort(S \ {m})

\* seq without its entries equal to x
RECURSIVE Without(_, _)
Without(seq, x) ==
    IF seq = <<>> THEN <<>>
    ELSE IF Head(seq) = x THEN Without(Tail(seq), x)
    ELSE <<Head(seq)>> \o Without(Tail(seq), x)

\* ---- C1 ------------------------------------------------------------------------
\* C1: after any sequence of Insert and Delete calls the walk of the level-0
\* chain from head lists exactly the live elements, each once, in the total
\* order: it equals the reference sort of the live elements.
C1_WalkIsRefSort == Elems(zsl, LevelChain(zsl, 0)) = RefSort(set)

\* a walk of three elements, two of them with one score, in a list of
\* height 2
C1_Witness ==
    /\ zsl.level = 2
    /\ Len(LevelChain(zsl, 0)) = 3
    /\ \E a \in set, b \in set, c \in set : a.score = b.score /\ a # b /\ c.score # a.score

\* ---- C2 ------------------------------------------------------------------------
\* C2: after every step of a sequence of Insert and Delete calls, GetRank of
\* every live element is its 1-based position in the reference sort.
C2_GetRankIsRefPosition ==
    \A e \in set : GetRank(zsl, e.score, e.Obj) = PosIn(RefSort(set), e)

\* GetRank returns 3 for an element that shares its score with another one
C2_Witness ==
    /\ zsl.level = 2
    /\ \E e \in set, f \in set :
          /\ e # f /\ e.score = f.score
          /\ GetRank(zsl, e.score, e.Obj) = 3

\* ---- C3 ------------------------------------------------------------------------
\* C3: after every step of a sequence of Insert and Delete calls,
\* GetElementByRank(r) returns for every r in 1..Len() the node that holds
\* the r-th element of the reference sort.
C3_ElementByRankIsRefSort ==
    \A r \in 1..ListLen(zsl) :
        LET n == GetElementByRank(zsl, r) IN
            /\ n \in DOMAIN zsl.nodes \ {HEAD}
            /\ r <= Len(RefSort(set))
            /\ Elem(zsl, n) = RefSort(set)[r]

\* GetElementByRank(3) returns a node of height 1 in a list of height 2
C3_Witness ==
    /\ zsl.level = 2
    /\ ListLen(zsl) = 3
    /\ GetElementByRank(zsl, 3) \in DOMAIN zsl.nodes \ {HEAD}
    /\ DOMAIN zsl.nodes[GetElementByRank(zsl, 3)].level = {0}

\* ---- C4 ------------------------------------------------------------------------
\* C4: round trip.  For every live element e, GetRank returns r >= 1 and
\* GetElementByRank(r) returns the node whose payload is e; for every r in
\* 1..Len() the node n that GetElementByRank(r) returns has GetRank(n) = r.
C4_RoundTrip ==
    /\ \A e \in set :
          LET r == GetRank(zsl, e.score, e.Obj)
              n == GetElementByRank(zsl, r)
          IN /\ r >= 1
             /\ n \in DOMAIN zsl.nodes \ {HEAD}
             /\ zsl.nodes[n].Obj = e.Obj
    /\ \A r \in 1..ListLen(zsl) :
          LET n == GetElementByRank(zsl, r) IN
             /\ n \in DOMAIN zsl.nodes \ {HEAD}
             /\ GetRank(zsl, zsl.nodes[n].score, zsl.nodes[n].Obj) = r

\* the round trip of the middle one of three elements with one score
C4_Witness ==
    /\ Cardinality(set) = 3
    /\ \A e \in set, f \in set : e.score = f.score
    /\ \E e \in set :
          /\ GetRank(zsl, e.score, e.Obj) = 2
          /\ GetElementByRank(zsl, 2) = Uuid(e.Obj)

\* ---- C5 ------------------------------------------------------------------------
\* C5: Len() is the number of nodes on the level-0 chain and the number of
\* live elements; every Insert raises it by one, every Delete that returns a
\* node lowers it by one and a Delete that returns nil leaves it alone, so
\* that it is the number of Inserts minus the number of Deletes that
\* returned a node; a range delete lowers it by the number it returns, which
\* is the number of nodes it took off the level-0 chain.
C5_LenCounts ==
    /\ ListLen(zsl) = Len(LevelChain(zsl, 0))
    /\ ListLen(zsl) = Cardinality(set)
    /\ \A obj \in FreeObjs, rlevel \in DrawnLevels :
          ListLen(Insert(zsl, obj.Populace, obj, rlevel).z) = ListLen(zsl) + 1
    /\ \A a \in CallerArgs :
          LET r == Delete(zsl, a.score, a.obj) IN
             ListLen(r.z) = IF r.ret # NIL THEN ListLen(zsl) - 1 ELSE ListLen(zsl)
    /\ \A scoreMax \in Scores, scoreMin \in Scores :
          LET r == DeleteRangeByScore(zsl, scoreMax, scoreMin) IN
             /\ ListLen(r.z) = ListLen(zsl) - r.ret
             /\ Len(LevelChain(r.z, 0)) = Len(LevelChain(zsl, 0)) - r.ret
    /\ \A start \in RangeRanks, end \in RangeRanks :
          LET r == DeleteRangeByRank(zsl, start, end) IN
             /\ ListLen(r.z) = ListLen(zsl) - r.ret
             /\ Len(LevelChain(r.z, 0)) = Len(LevelChain(zsl, 0)) - r.ret

\* a list of two elements where one Delete returns a node and another nil
C5_Witness ==
    /\ ListLen(zsl) = 2
    /\ \E a \in CallerArgs, b \in CallerArgs :
          /\ Delete(zsl, a.score, a.obj).ret # NIL
          /\ ListLen(Delete(zsl, a.score, a.obj).z) = 1
          /\ Delete(zsl, b.score, b.obj).ret = NIL
          /\ ListLen(Delete(zsl, b.score, b.obj).z) = 2


\* ---- C6 ------------------------------------------------------------------------
\* the sum of the level-0 spans of the links from head to the tail node
RECURSIVE spanSum0(_, _, _)
spanSum0(z, n, fuel) ==
    LET f == z.nodes[n].level[0].forward IN
    IF f = NIL \/ fuel = 0 \/ f \notin DOMAIN z.nodes THEN 0
    ELSE z.nodes[n].level[0].span + spanSum0(z, f, fuel - 1)

\* the pairs <<node, sum of the spans followed>> of every top-down descent
\* from node n at level i: a descent follows the forward link of its level
\* or goes down one level
RECURSIVE descentSums(_, _, _, _, _)
descentSums(z, n, i, acc, fuel) ==
    LET f == z.nodes[n].level[i].forward IN
    {<<n, acc>>}
    \cup (IF i > 0 THEN descentSums(z, n, i - 1, acc, fuel) ELSE {})
    \cup (IF f # NIL /\ fuel > 0 /\ f \in DOMAIN z.nodes /\ i \in DOMAIN z.nodes[f].level
          THEN descentSums(z, f, i, acc + z.nodes[n].level[i].span, fuel - 1)
          ELSE {})

\* C6: span-consistency after every mutation (Insert, Delete,
\* DeleteRangeByScore, DeleteRangeByRank): the level-0 spans from head to
\* tail sum to Len(), and the spans of the links of any top-down descent
\* from head to a live node X sum to X's 1-based rank.
C6_SpanConsistency ==
    LET chain == LevelChain(zsl, 0)
        sums == descentSums(zsl, HEAD, zsl.level - 1, 0, MaxUid + 2)
    IN /\ spanSum0(zsl, HEAD, MaxUid + 2) = ListLen(zsl)
       /\ \A p \in sums : p[1] # HEAD => p[2] = PosIn(chain, p[1]) /\ p[2] >= 1
       /\ \A k \in 1..Len(chain) : <<chain[k], k>> \in sums
       /\ \A e \in set : GetRank(zsl, e.score, e.Obj) = PosIn(chain, Uuid(e.Obj))

\* head's level-1 link passes over the first element, and a range delete
\* of rank 1 shortens it
C6_Witness ==
    /\ zsl.level = 2
    /\ ListLen(zsl) = 3
    /\ zsl.nodes[HEAD].level[1].span = 2
    /\ DeleteRangeByRank(zsl, 1, 1).z.nodes[HEAD].level[1].span = 1
    /\ DeleteRangeByRank(zsl, 1, 1).ret = 1

\* ---- C7 ------------------------------------------------------------------------
\* C7: Delete(score, obj) when no live element has both that score and that
\* identity (identity absent, identity live under another score, or empty
\* list) returns nil and leaves Len(), Height(), every rank, link, span and
\* back-reference and the in-order sequence unchanged.
C7_DeleteAbsentIsNoop ==
    \A a \in CallerArgs :
        (~ \E e \in set : e.score = a.score /\ Uuid(e.Obj) = Uuid(a.obj))
            => Delete(zsl, a.score, a.obj) = [z |-> zsl, ret |-> NIL]

\* a Delete of an object that is live under another score, where another
\* live element has the score that is asked for
C7_Witness ==
    \E a \in CallerArgs :
        /\ \E e \in set : Uuid(e.Obj) = Uuid(a.obj) /\ e.score # a.score
        /\ \E e \in set : Uuid(e.Obj) # Uuid(a.obj) /\ e.score = a.score
        /\ Delete(zsl, a.score, a.obj).ret = NIL

\* ---- C8 ------------------------------------------------------------------------
\* C8: Delete(score, obj) of a live pair succeeds, also when other live
\* elements have the same score, and returns the node of that identity;
\* afterwards the element is on no level chain, every other live element is
\* still there and their order is unchanged.
C8_DeleteLiveSucceeds ==
    \A e \in set :
        LET r == Delete(zsl, e.score, e.Obj) IN
            /\ r.ret \in DOMAIN zsl.nodes \ {HEAD}
            /\ zsl.nodes[r.ret].Obj = e.Obj
            /\ r.ret \notin DOMAIN r.z.nodes
            /\ \A i \in LevelIdx : r.ret \notin Range(LevelChain(r.z, i))
            /\ Elems(r.z, LevelChain(r.z, 0)) = Without(Elems(zsl, LevelChain(zsl, 0)), e)
            /\ Len(LevelChain(r.z, 0)) = Len(LevelChain(zsl, 0)) - 1

\* the Delete of the middle one of three elements with one score, which is
\* on both levels
C8_Witness ==
    /\ Cardinality(set) = 3
    /\ \A e \in set, f \in set : e.score = f.score
    /\ \E e \in set :
          /\ LevelChain(zsl, 0)[2] = Uuid(e.Obj)
          /\ DOMAIN zsl.nodes[Uuid(e.Obj)].level = {0, 1}
          /\ Delete(zsl, e.score, e.Obj).ret = Uuid(e.Obj)

\* ---- C9 ------------------------------------------------------------------------
\* C9: GetElementByRank(rank) returns nil for every rank outside 1..Len(),
\* in particular for rank 0, for negative ranks and for Len()+1, on empty
\* and non-empty lists; it never returns the head sentinel.
C9_OutOfRangeIsNil ==
    op.name = "GetElementByRank" =>
        /\ op.ret # HEAD
        /\ (op.rank < 1 \/ op.rank > ListLen(zsl)) => op.ret = NIL

\* ---- C10 -----------------------------------------------------------------------
\* C10: GetRank(score, obj) returns 0 whenever the list holds no element
\* with both that score and obj's identity (also when obj is live under
\* another score), and otherwise that element's 1-based rank.
C10_GetRankZeroUnlessLive ==
    op.name = "GetRank" =>
        op.ret = IF \E e \in set : e.score = op.score /\ Uuid(e.Obj) = Uuid(op.obj)
                 THEN PosIn(RefSort(set), [score |-> op.score, Obj |-> op.obj])
                 ELSE 0

\* ---- helpers of the range claims ----------------------------------------------
\* the live elements whose score lies in [lo, hi]
InScoreRange(lo, hi) == {e \in set : lo <= e.score /\ e.score <= hi}

\* the nodes of the level-0 chain whose score lies in [lo, hi], in chain order
RECURSIVE chainInRange(_, _, _, _)
chainInRange(z, chain, lo, hi) ==
    IF chain = <<>> THEN <<>>
    ELSE IF lo <= z.nodes[Head(chain)].score /\ z.nodes[Head(chain)].score <= hi
    THEN <<Head(chain)>> \o chainInRange(z, Tail(chain), lo, hi)
    ELSE chainInRange(z, Tail(chain), lo, hi)

\* seq without its entries at the positions a..b
DropRanks(seq, a, b) ==
    LET lo == IF a < 1 THEN 1 ELSE a
        hi == IF b > Len(seq) THEN Len(seq) ELSE b
    IN IF lo > hi THEN seq
       ELSE SubSeq(seq, 1, lo - 1) \o SubSeq(seq, hi + 1, Len(seq))

\* ---- C11 -----------------------------------------------------------------------
\* C11: DeleteRangeByScore with a lower bound lo and an upper bound hi,
\* lo <= hi, removes every live element whose score lies in [lo, hi], removes
\* no other element and returns the number of elements it removed.
C11_DeleteRangeByScoreRemovesRange ==
    \A hi \in Scores, lo \in Scores :
        lo <= hi =>
            LET r == DeleteRangeByScore(zsl, hi, lo) IN
                /\ Range(Elems(r.z, LevelChain(r.z, 0))) = set \ InScoreRange(lo, hi)
                /\ r.ret = Cardinality(InScoreRange(lo, hi))

\* ---- C12 -----------------------------------------------------------------------
\* C12: DeleteRangeByRank(start, end) removes exactly the elements whose rank
\* before the call lies in [start, end] and in [1, Len()], leaves the others
\* in their order, and returns the number removed, which is 0 when
\* start > end or start > Len().
C12_DeleteRangeByRankRemovesRanks ==
    LET before == Elems(zsl, LevelChain(zsl, 0)) IN
    \A start \in RangeRanks, end \in RangeRanks :
        LET r == DeleteRangeByRank(zsl, start, end)
            after == DropRanks(before, start, end)
        IN /\ Elems(r.z, LevelChain(r.z, 0)) = after
           /\ r.ret = Len(before) - Len(after)
           /\ ListLen(r.z) = Len(after)
           /\ (start > end \/ start > ListLen(zsl)) => (r.ret = 0 /\ r.z = zsl)

\* a list of three elements that loses the two of rank 2 and 3, and loses
\* none when start > end
C12_Witness ==
    /\ ListLen(zsl) = 3
    /\ zsl.level = 2
    /\ DeleteRangeByRank(zsl, 2, 3).ret = 2
    /\ ListLen(DeleteRangeByRank(zsl, 2, 3).z) = 1
    /\ DeleteRangeByRank(zsl, 3, 2).ret = 0

\* ---- C13 -----------------------------------------------------------------------
\* C13: FirstInRange(scoreMax, scoreMin) with scoreMin <= scoreMax returns
\* the first node of the level-0 chain whose score lies in
\* [scoreMin, scoreMax], and nil exactly when no live score lies there.
C13_FirstInRangeIsFirst ==
    \A scoreMax \in Scores, scoreMin \in Scores :
        scoreMin <= scoreMax =>
            LET inside == chainInRange(zsl, LevelChain(zsl, 0), scoreMin, scoreMax)
            IN FirstInRange(zsl, scoreMax, scoreMin) =
                  IF inside = <<>> THEN NIL ELSE inside[1]

\* ---- C14 -----------------------------------------------------------------------
\* C14: LastInRange with a lower bound lo and an upper bound hi, lo <= hi,
\* returns the last node of the level-0 chain whose score lies in [lo, hi],
\* and nil exactly when no live score lies there.
C14_LastInRangeIsLast ==
    \A hi \in Scores, lo \in Scores :
        lo <= hi =>
            LET inside == chainInRange(zsl, LevelChain(zsl, 0), lo, hi)
            IN LastInRange(zsl, hi, lo) =
                  IF inside = <<>> THEN NIL ELSE inside[Len(inside)]

\* ---- C15 -----------------------------------------------------------------------
\* the list with everything cleared but the first level-0 link of head, the
\* tail reference and the scores
EndsOnly(z) ==
    [nodes |-> [n \in DOMAIN z.nodes |->
                  [score |-> z.nodes[n].score,
                   Obj |-> NilObj,
                   level |-> [i \in DOMAIN z.nodes[n].level |->
                                IF n = HEAD /\ i = 0 THEN z.nodes[n].level[i]
                                ELSE [forward |-> NIL, span |-> 0]],
                   backward |-> NIL]],
     tail |-> z.tail,
     length |-> 0,
     level |-> 1]

\* C15: IsInRange with a lower bound lo and an upper bound hi is true iff
\* the list is not empty, lo <= hi, the smallest live score is <= hi and the
\* largest live score is >= lo; it reads the first level-0 link of head and
\* the tail reference only (it gives the same on the list with the rest
\* cleared).
C15_IsInRangeIffOverlap ==
    \A hi \in Scores, lo \in Scores :
        /\ IsInRange(zsl, hi, lo) =
              (/\ set # {}
               /\ lo <= hi
               /\ \E e \in set : (\A f \in set : e.score <= f.score) /\ e.score <= hi
               /\ \E e \in set : (\A f \in set : e.score >= f.score) /\ e.score >= lo)
        /\ IsInRange(zsl, hi, lo) = IsInRange(EndsOnly(zsl), hi, lo)

\* a list whose scores are all MaxScore: in range for the bound MaxScore, out
\* of range for the bounds below it
C15_Witness ==
    /\ Cardinality(set) = 2
    /\ \A e \in set : e.score = MaxScore
    /\ IsInRange(zsl, MaxScore, MaxScore)
    /\ ~IsInRange(zsl, MaxScore - 1, 1)
    /\ ~IsInRange(zsl, 1, MaxScore)

\* ---- C18 -----------------------------------------------------------------------
\* C18: the calls that Walk makes are on the nodes of the level-0 chain in
\* chain order, one call each and no object twice; every call but the last
\* returned true, so no call follows one that returned false; Walk stops
\* before the end of the chain only after a call that returned false; with a
\* visitor that always returns true it makes exactly Len() calls.
C18_WalkCalls ==
    \A stop \in SUBSET Uids :
        LET calls == Walk(zsl, stop)
            chain == LevelChain(zsl, 0)
        IN /\ Len(calls) <= Len(chain)
           /\ \A k \in 1..Len(calls) :
                 /\ calls[k].Obj = zsl.nodes[chain[k]].Obj
                 /\ calls[k].rank = k
                 /\ \A j \in 1..(k - 1) : calls[j].Obj # calls[k].Obj
                 /\ k < Len(calls) => visitor(stop, calls[k].rank, calls[k].Obj)
           /\ Len(calls) < Len(chain) =>
                 ~visitor(stop, calls[Len(calls)].rank, calls[Len(calls)].Obj)
           /\ stop = {} => Len(calls) = ListLen(zsl)

\* a walk of three elements that ends at the second, and one that goes to
\* the end
C18_Witness ==
    /\ ListLen(zsl) = 3
    /\ \E stop \in SUBSET Uids : Len(Walk(zsl, stop)) = 2
    /\ Len(Walk(zsl, {})) = 3

\* ---- C20 -----------------------------------------------------------------------
\* the numbers of elements asked for above and below the target
NearCounts == 0..(MaxUid - 1)

\* C20: GetNearValueRange(rank, up, down) with 1 <= rank <= Len() returns
\* the objects of exactly the elements whose rank lies in
\* [rank - up, rank + down] and in [1, Len()], each once, which are
\* min(up, rank - 1) + 1 + min(down, Len() - rank) objects; it returns nil
\* when GetElementByRank(rank) returns nil.
C20_NearRangeIsRankWindow ==
    LET ref == RefSort(set)
        n == ListLen(zsl)
    IN \A rank \in RankArgs :
        LET target == GetElementByRank(zsl, rank) IN
        \A up \in NearCounts, down \in NearCounts :
            LET r == GetNearValueRange(zsl, rank, up, down)
                above == IF up < rank - 1 THEN up ELSE rank - 1
                below == IF down < n - rank THEN down ELSE n - rank
            IN /\ (1 <= rank /\ rank <= n) =>
                     /\ ~r.isnil
                     /\ Range(r.ranks) = {ref[k].Obj : k \in (rank - above)..(rank + below)}
                     /\ Len(r.ranks) = above + 1 + below
               /\ target = NIL => (r.isnil /\ r.ranks = <<>>)

\* around the middle of three elements: all three with up = down = 1, and
\* the window is cut at both ends of the list
C20_Witness ==
    /\ ListLen(zsl) = 3
    /\ Len(GetNearValueRange(zsl, 2, 1, 1).ranks) = 3
    /\ Len(GetNearValueRange(zsl, 1, 2, 1).ranks) = 2
    /\ Len(GetNearValueRange(zsl, 3, 1, 2).ranks) = 2
    /\ GetNearValueRange(zsl, MaxUid + 1, 1, 1).isnil

\* ---- C16 -----------------------------------------------------------------------
\* C16: in the example program on the ascending list, whatever levels
\* randLevel returns: with jack (2012), tom (2015) and mike (2014) inserted,
\* Len() = 3, GetRank(2012, jack) = 1, GetRank(2015, tom) = 3 and
\* GetElementByRank(2) is mike; after Delete(2012, jack), which returns
\* jack's node, Len() = 2, GetElementByRank(1) is mike and
\* GetRank(2015, tom) = 2; after jack is inserted again with score 2112,
\* Len() = 3 and GetRank(2112, jack) = 3.
C16_Leaderboard ==
    /\ set = {Entry(p1), Entry(p2), Entry(p3)} =>
          /\ ListLen(zsl) = 3
          /\ AscGetRank(zsl, 2012, p1) = 1
          /\ AscGetRank(zsl, 2015, p2) = 3
          /\ GetElementByRank(zsl, 2) = Uuid(p3)
          /\ zsl.nodes[Uuid(p3)].Obj = p3
    /\ op.name = "Delete" =>
          /\ op.ret = Uuid(p1)
          /\ ListLen(zsl) = 2
          /\ GetElementByRank(zsl, 1) = Uuid(p3)
          /\ zsl.nodes[Uuid(p3)].Obj = p3
          /\ AscGetRank(zsl, 2015, p2) = 2
    /\ Entry(p1Changed) \in set =>
          /\ ListLen(zsl) = 3
          /\ AscGetRank(zsl, 2112, p1Changed) = 3

\* the end of the example program, with a node of the greatest level and the
\* two others of level 1
C16_Witness ==
    /\ set = {Entry(p1Changed), Entry(p2), Entry(p3)}
    /\ zsl.level = ZSKIPLIST_MAXLEVEL
    /\ Len(LevelChain(zsl, 1)) = 1
    /\ AscGetRank(zsl, 2112, p1Changed) = 3

\* ---- C17 -----------------------------------------------------------------------
\* C17: on the ascending list that holds jack (2012), mike (2014) and tom
\* (2015), whatever the levels of the three nodes, DeleteRangeByScore(2013,
\* 2015) returns 2 and leaves a list with Len() = 1 whose only element is
\* jack.
C17_RangeDeleteLeavesJack ==
    op.name = "DeleteRangeByScore" =>
        /\ op.ret = 2
        /\ ListLen(zsl) = 1
        /\ Elems(zsl, LevelChain(zsl, 0)) = <<Entry(p1)>>
        /\ DOMAIN zsl.nodes = {HEAD, Uuid(p1)}
        /\ zsl.tail = Uuid(p1)
        /\ set = {Entry(p1)}

\* the list after the range delete, when jack's node has three levels
C17_Witness ==
    /\ op.name = "DeleteRangeByScore"
    /\ op.ret = 2
    /\ zsl.level = 3
    /\ set = {Entry(p1)}

\* ---- C19 -----------------------------------------------------------------------
\* C19: in Walk(startTail, fn) of the ascending list, from either end, the
\* rank given to fn with an element is the rank GetRank returns for that
\* element.
C19_WalkRankIsGetRank ==
    \A startTail \in BOOLEAN, stop \in SUBSET Uids :
        LET calls == AscWalk(zsl, startTail, stop) IN
            \A k \in 1..Len(calls) :
                calls[k].rank = AscGetRank(zsl, calls[k].Obj.Populace, calls[k].Obj)

\* C19 as amended: in Walk(startTail, fn) of the ascending list, from either
\* end, the rank given to fn with an element counts from the tail, the
\* element of the greatest score having rank 1: it is Len() + 1 minus the
\* rank GetRank returns for that element.
C19_WalkRankIsRankFromTail ==
    \A startTail \in BOOLEAN, stop \in SUBSET Uids :
        LET calls == AscWalk(zsl, startTail, stop) IN
            \A k \in 1..Len(calls) :
                /\ AscGetRank(zsl, calls[k].Obj.Populace, calls[k].Obj) >= 1
                /\ calls[k].rank = ListLen(zsl) + 1
                        - AscGetRank(zsl, calls[k].Obj.Populace, calls[k].Obj)

\* walks of three elements from both ends: the walk from the tail starts
\* with rank 1, the walk from head with rank 3
C19_Witness ==
    /\ ListLen(zsl) = 3
    /\ Len(AscWalk(zsl, TRUE, {})) = 3
    /\ Len(AscWalk(zsl, FALSE, {})) = 3
    /\ AscWalk(zsl, TRUE, {})[1].rank = 1
    /\ AscWalk(zsl, FALSE, {})[1].rank = 3
    /\ AscWalk(zsl, FALSE, {})[1].Obj = AscWalk(zsl, TRUE, {})[3].Obj

\* ---- C21 -----------------------------------------------------------------------
\* C21: the list that GetNearValueRange(rank, up, down) returns for a rank
\* in [1, Len()] is in increasing rank order: it is the stretch of the
\* level-0 walk from rank - up (or 1) to rank + down (or Len()), for every
\* up and down, up >= 2 included.
C21_NearRangeIsOrdered ==
    LET ref == RefSort(set)
        n == ListLen(zsl)
    IN \A rank \in 1..n :
        \A up \in NearCounts, down \in NearCounts :
            LET above == IF up < rank - 1 THEN up ELSE rank - 1
                below == IF down < n - rank THEN down ELSE n - rank
            IN GetNearValueRange(zsl, rank, up, down).ranks
                  = [k \in 1..(above + 1 + below) |-> ref[rank - above + k - 1].Obj]

\* ---- C22 -----------------------------------------------------------------------
\* the numbers of elements that GetTopRankValueRange is asked for
TopCounts == 0..(MaxUid + 1)

\* C22: GetTopRankValueRange(n) with n >= 0 returns min(n, Len()) objects:
\* those of the elements with the highest scores, best first, in the order
\* of the ranks 1, 2, ... with none left out; it returns the empty list when
\* n = 0 or the list is empty.
C22_TopRangeIsBestFirst ==
    LET ref == RefSort(set)
        len == ListLen(zsl)
    IN \A n \in TopCounts :
        LET m == IF n < len THEN n ELSE len
        IN GetTopRankValueRange(zsl, n) = [k \in 1..m |-> ref[k].Obj]

\* the top two of three elements of different scores, and more asked for
\* than there are
C22_Witness ==
    /\ ListLen(zsl) = 3
    /\ \E e \in set : e.score # (CHOOSE f \in set : TRUE).score
    /\ Len(GetTopRankValueRange(zsl, 2)) = 2
    /\ Len(GetTopRankValueRange(zsl, MaxUid + 1)) = 3
    /\ GetTopRankValueRange(zsl, 0) = <<>>

\* ---- C23 -----------------------------------------------------------------------
\* C23: the level that randLevel draws from the seed of the list lies in
\* [1, ZSKIPLIST_MAXLEVEL]; 1 <= Height() <= ZSKIPLIST_MAXLEVEL; no node
\* has more than ZSKIPLIST_MAXLEVEL link records; and a level-i link, with
\* i below the height of the list, leads to a node that has a level-i link
\* record, so that no level array is indexed out of its bounds.
C23_LevelsWithinMax ==
    /\ randLevel(zsl.seed).level \in 1..ZSKIPLIST_MAXLEVEL
    /\ Height(zsl) \in 1..ZSKIPLIST_MAXLEVEL
    /\ \A n \in DOMAIN zsl.nodes :
        /\ DOMAIN zsl.nodes[n].level \subseteq LevelIdx
        /\ \A i \in DOMAIN zsl.nodes[n].level :
              LET f == zsl.nodes[n].level[i].forward IN
              f # NIL => (f \in DOMAIN zsl.nodes /\ i \in DOMAIN zsl.nodes[f].level)
    /\ (0..(Height(zsl) - 1)) \subseteq DOMAIN zsl.nodes[HEAD].level

\* a node of the maximal level is inside, with a second node behind it
C23_Witness ==
    /\ Height(zsl) = ZSKIPLIST_MAXLEVEL
    /\ ListLen(zsl) = 2
    /\ \E n \in DOMAIN zsl.nodes \ {HEAD} :
          DOMAIN zsl.nodes[n].level = LevelIdx

\* ---- C24 -----------------------------------------------------------------------
\* C24: the generator is advanced by Insert alone, and by one randLevel for
\* each Insert: a step that puts a node into the list leaves the seed that
\* randLevel leaves and gives the node the level that randLevel draws from
\* the seed as it was, and a step that puts no node into the list leaves the
\* seed as it was.  So the heights that later Insert calls draw are a
\* function of the seed the list was created with and of the number of
\* Insert calls before them, whatever Delete calls are made in between.
C24_OnlyInsertDraws ==
    [][LET rl == randLevel(zsl.seed)
           new == DOMAIN zsl'.nodes \ DOMAIN zsl.nodes
       IN IF new # {}
          THEN /\ zsl'.seed = rl.seed
               /\ \A n \in new : Cardinality(DOMAIN zsl'.nodes[n].level) = rl.level
          ELSE zsl'.seed = zsl.seed]_vars

\* three Insert calls were made from the first seed with Delete calls in
\* between, and the node that is left is the one of the third Insert
C24_Witness ==
    /\ zsl.seed = seedAfter(toSeed(SeedList[1]), 3)
    /\ ListLen(zsl) = 1
    /\ Height(zsl) = randLevel(seedAfter(toSeed(SeedList[1]), 2)).level
    /\ Height(zsl) # randLevel(seedAfter(toSeed(SeedList[1]), 1)).level

\* ---- C25 -----------------------------------------------------------------------
\* C25: on the list of part_003, after any sequence of Insert and Delete
\* calls, IsContains(score, obj) is true iff a live element has that score
\* and the identity of obj; and Delete(score, obj) returns true, and removes
\* an element, exactly when IsContains(score, obj) is true before it.
C25_IsContainsIffLive ==
    \A a \in CallerArgs :
        LET live == \E e \in set : e.score = a.score /\ IsEqualTo(e.Obj, a.obj)
            r == EqDelete(zsl, a.score, a.obj)
        IN /\ IsContains(zsl, a.score, a.obj) = live
           /\ r.ret = IsContains(zsl, a.score, a.obj)
           /\ ListLen(r.z) = ListLen(zsl) - (IF r.ret THEN 1 ELSE 0)

\* an element that is inside is found, it is not found under the other
\* score although elements of that score are inside, and an object that is
\* not inside is not found under its own score, which others have
C25_Witness ==
    /\ ListLen(zsl) = 2
    /\ \E e \in set, f \in set, a \in CallerArgs :
          /\ e.score # f.score
          /\ IsContains(zsl, e.score, e.Obj)
          /\ ~IsContains(zsl, f.score, e.Obj)
          /\ Uuid(a.obj) \notin LiveUids
          /\ a.score = e.score
          /\ ~IsContains(zsl, a.score, a.obj)

RECURSIVE backChain(_, _, _)
backChain(z, n, fuel) ==
    IF n = NIL \/ fuel = 0 \/ n \notin DOMAIN z.nodes THEN <<>>
    ELSE <<n>> \o backChain(z, z.nodes[n].backward, fuel - 1)

Reverse(seq) == [k \in 1..Len(seq) |-> seq[Len(seq) + 1 - k]]

\* C27: after every mutation the backward reference of a live node is its
\* predecessor on the level-0 chain, and nil for the first node (never the
\* head); the tail is the last node of the level-0 chain, and nil when the
\* list is empty; so the backward references followed from the tail visit
\* the live nodes in the reverse of the level-0 order.
C27_BackwardIsPredecessor ==
    LET chain == LevelChain(zsl, 0) IN
    /\ Range(chain) = DOMAIN zsl.nodes \ {HEAD}
    /\ \A k \in 1..Len(chain) :
          zsl.nodes[chain[k]].backward = IF k = 1 THEN NIL ELSE chain[k - 1]
    /\ zsl.tail = IF chain = <<>> THEN NIL ELSE chain[Len(chain)]
    /\ backChain(zsl, zsl.tail, MaxUid + 2) = Reverse(chain)

\* three elements, and the second becomes the first when the first is
\* deleted, and the second becomes the tail when the third is deleted
C27_Witness ==
    /\ ListLen(zsl) = 3
    /\ LET chain == LevelChain(zsl, 0)
           e1 == Elem(zsl, chain[1])
           e3 == Elem(zsl, chain[3])
       IN /\ zsl.nodes[chain[2]].backward = chain[1]
          /\ zsl.tail = chain[3]
          /\ Delete(zsl, e1.score, e1.Obj).z.nodes[chain[2]].backward = NIL
          /\ Delete(zsl, e3.score, e3.Obj).z.tail = chain[2]

\* ---- C28 -----------------------------------------------------------------------
\* the sum of the spans of the level-i links from n on, the last link, which
\* has no target, included
RECURSIVE spanSum(_, _, _, _)
spanSum(z, n, i, fuel) ==
    LET l == z.nodes[n].level[i] IN
    IF l.forward = NIL \/ fuel = 0 \/ l.forward \notin DOMAIN z.nodes THEN l.span
    ELSE l.span + spanSum(z, l.forward, i, fuel - 1)

\* C28: after every mutation, for every node u, the head counted with rank
\* 0, and every level i below the height of u and below Height(): when the
\* level-i link of u leads to a node v its span is rank(v) - rank(u) and is
\* >= 1, and when it leads nowhere its span is Len() - rank(u); so the
\* spans along the level-i chain sum to Len().
C28_SpanIsRankDistance ==
    LET chain == LevelChain(zsl, 0) IN
    /\ \A u \in DOMAIN zsl.nodes :
          \A i \in DOMAIN zsl.nodes[u].level :
              i < Height(zsl) =>
                 LET l == zsl.nodes[u].level[i]
                     ru == IF u = HEAD THEN 0 ELSE PosIn(chain, u)
                 IN IF l.forward # NIL
                    THEN /\ l.span = PosIn(chain, l.forward) - ru
                         /\ l.span >= 1
                    ELSE l.span = ListLen(zsl) - ru
    /\ \A i \in 0..(Height(zsl) - 1) : spanSum(zsl, HEAD, i, MaxUid + 2) = ListLen(zsl)

\* on the level-1 chain of three elements a link passes over an element and
\* the last link, which leads nowhere, spans the elements behind its node
C28_Witness ==
    /\ ListLen(zsl) = 3
    /\ Height(zsl) = 2
    /\ \E u \in DOMAIN zsl.nodes :
          /\ 1 \in DOMAIN zsl.nodes[u].level
          /\ zsl.nodes[u].level[1].forward # NIL
          /\ zsl.nodes[u].level[1].span = 2
    /\ \E u \in DOMAIN zsl.nodes \ {HEAD} :
          /\ 1 \in DOMAIN zsl.nodes[u].level
          /\ zsl.nodes[u].level[1].forward = NIL
          /\ zsl.nodes[u].level[1].span = 1

\* ---- C29 -----------------------------------------------------------------------
\* the nodes of chain that have a level-i link record
RECURSIVE atLevel(_, _, _)
atLevel(z, chain, i) ==
    IF chain = <<>> THEN <<>>
    ELSE IF i \in DOMAIN z.nodes[Head(chain)].level
    THEN <<Head(chain)>> \o atLevel(z, Tail(chain), i)
    ELSE atLevel(z, Tail(chain), i)

\* C29: after every mutation, for every level i below Height() the level-i
\* chain from head is the level-0 chain cut down to the nodes whose height
\* is greater than i, in the same order, so that it is a subsequence of the
\* level-(i-1) chain; and no step changes the height of a node that stays
\* in the list.
C29_LevelChains ==
    /\ [](LET chain == LevelChain(zsl, 0) IN
          \A i \in 0..(Height(zsl) - 1) :
              /\ LevelChain(zsl, i) = atLevel(zsl, chain, i)
              /\ i > 0 => LevelChain(zsl, i) = atLevel(zsl, LevelChain(zsl, i - 1), i))
    /\ [][\A n \in DOMAIN zsl.nodes \cap DOMAIN zsl'.nodes :
             DOMAIN zsl'.nodes[n].level = DOMAIN zsl.nodes[n].level]_vars

\* of three elements the level-1 chain leaves some out and keeps some
C29_Witness ==
    /\ ListLen(zsl) = 3
    /\ Height(zsl) = 2
    /\ Len(LevelChain(zsl, 1)) = 2
    /\ LevelChain(zsl, 1)[1] = LevelChain(zsl, 0)[1]
    /\ LevelChain(zsl, 1)[2] = LevelChain(zsl, 0)[3]

\* ---- C30 -----------------------------------------------------------------------
\* the number of link records of node n
nodeHeight(z, n) == Cardinality(DOMAIN z.nodes[n].level)

\* C30: after every mutation Height() is the greatest height of a live
\* node, and 1 when the list is empty; so when Height() > 1 the link of
\* head at level Height() - 1 is not nil.
C30_HeightIsMaxNodeHeight ==
    LET live == DOMAIN zsl.nodes \ {HEAD} IN
    /\ Height(zsl) = IF live = {} THEN 1
                     ELSE CHOOSE h \in {nodeHeight(zsl, n) : n \in live} :
                             \A n \in live : nodeHeight(zsl, n) <= h
    /\ Height(zsl) > 1 => zsl.nodes[HEAD].level[Height(zsl) - 1].forward # NIL

\* the one node of height 2 among two elements: Delete of it lowers the
\* height to 1, Delete of the other leaves it at 2
C30_Witness ==
    /\ ListLen(zsl) = 2
    /\ Height(zsl) = 2
    /\ \E e \in set, f \in set :
          /\ Height(Delete(zsl, e.score, e.Obj).z) = 1
          /\ Height(Delete(zsl, f.score, f.Obj).z) = 2

\* ---- C31 -----------------------------------------------------------------------
\* the list and the node to delete at each of the n calls of deleteNode that a
\* range delete makes with the references update, starting with x, and, last,
\* the list that is left and the node behind the last one deleted
RECURSIVE deleteMoments(_, _, _, _)
deleteMoments(z, x, update, n) ==
    IF n = 0 \/ x = NIL THEN <<[z |-> z, x |-> x]>>
    ELSE LET next == z.nodes[x].level[0].forward
         IN <<[z |-> z, x |-> x]>>
            \o (CHOOSE t \in {deleteMoments(z1, next, update, n - 1) :
                                z1 \in {deleteNode(z, x, update)}} : TRUE)

\* the last node of the level-0 chain in front of x that has a level-i link
\* record, head when there is none: the level-i predecessor of x
levelPred(z, x, i) ==
    LET chain == LevelChain(z, 0)
        k == PosIn(chain, x)
        before == {j \in 1..(k - 1) : i \in DOMAIN z.nodes[chain[j]].level}
    IN IF before = {} THEN HEAD
       ELSE chain[CHOOSE j \in before : \A j2 \in before : j2 <= j]

\* span-consistency of the list z: every link below the height spans the
\* distance in rank to its target, or to the end of the list
spansHold(z) ==
    LET chain == LevelChain(z, 0) IN
    /\ Len(chain) = z.length
    /\ \A u \in DOMAIN z.nodes :
          \A i \in DOMAIN z.nodes[u].level :
              i < z.level =>
                 LET l == z.nodes[u].level[i]
                     ru == IF u = HEAD THEN 0 ELSE PosIn(chain, u)
                 IN IF l.forward # NIL
                    THEN l.forward \in DOMAIN z.nodes /\ l.span = PosIn(chain, l.forward) - ru
                    ELSE l.span = z.length - ru

\* the backward references and the tail of the list z are those of its
\* level-0 chain
backwardHolds(z) ==
    LET chain == LevelChain(z, 0) IN
    /\ Range(chain) = DOMAIN z.nodes \ {HEAD}
    /\ \A k \in 1..Len(chain) :
          z.nodes[chain[k]].backward = IF k = 1 THEN NIL ELSE chain[k - 1]
    /\ z.tail = IF chain = <<>> THEN NIL ELSE chain[Len(chain)]

\* the references update fit every deletion of the moments tr of a range
\* delete that removed n nodes and left the list zend
momentsHold(tr, update, n, zend) ==
    /\ Len(tr) = n + 1
    /\ tr[n + 1].z = zend
    /\ \A k \in 1..n :
          /\ \A i \in 0..(tr[k].z.level - 1) :
                update[i] = levelPred(tr[k].z, tr[k].x, i)
          /\ spansHold(tr[k + 1].z)
          /\ backwardHolds(tr[k + 1].z)

\* every deletion of every range delete of the current list is handed the
\* predecessors of the node it deletes and leaves spans, backward references
\* and tail right (by rank: with start <= end, the calls that can delete)
rangeDeleteUpdateFits ==
    /\ \A start \in RangeRanks :
          LET d == rangeRankDescend(zsl, HEAD, zsl.level - 1, [i \in LevelIdx |-> NIL],
                                    0, start)
          IN \A end \in RangeRanks :
                start <= end =>
                   LET r == DeleteRangeByRank(zsl, start, end)
                       tr == deleteMoments(zsl, zsl.nodes[d.x].level[0].forward,
                                           d.update, r.ret)
                   IN momentsHold(tr, d.update, r.ret, r.z)
    /\ \A scoreMax \in Scores, scoreMin \in Scores :
          LET d == rangeScoreDescend(zsl, HEAD, zsl.level - 1, [i \in LevelIdx |-> NIL],
                                     scoreMax)
              r == DeleteRangeByScore(zsl, scoreMax, scoreMin)
              tr == deleteMoments(zsl, zsl.nodes[d.x].level[0].forward, d.update, r.ret)
          IN momentsHold(tr, d.update, r.ret, r.z)

\* C31: within one DeleteRangeByScore or DeleteRangeByRank call the
\* references update that deleteNode is given at each deletion are, at every
\* level below the height of the list at that moment, the level-i
\* predecessors of the node that is deleted, so that the spans, the backward
\* references and the tail are right after every single deletion and not
\* only when the call returns.
C31_RangeDeleteUpdateFits == []rangeDeleteUpdateFits

\* a range delete by rank takes the second and the third of three elements,
\* the first of which is on level 1, and a range delete by score takes two
\* elements
C31_Witness ==
    /\ ListLen(zsl) = 3
    /\ Height(zsl) = 2
    /\ DeleteRangeByRank(zsl, 2, 3).ret = 2
    /\ levelPred(zsl, LevelChain(zsl, 0)[2], 1) = LevelChain(zsl, 0)[1]
    /\ \E scoreMax \in Scores, scoreMin \in Scores :
          DeleteRangeByScore(zsl, scoreMax, scoreMin).ret = 2

\* ---- C32 -----------------------------------------------------------------------
\* the list z as its operations read it: without the seed and without the
\* link records of head at and above the height
belowHeight(z) ==
    [nodes |-> [n \in DOMAIN z.nodes |->
                  IF n = HEAD
                  THEN [z.nodes[HEAD] EXCEPT !.level =
                          [i \in 0..(z.level - 1) |-> z.nodes[HEAD].level[i]]]
                  ELSE z.nodes[n]],
     tail |-> z.tail,
     length |-> z.length,
     level |-> z.level]

\* the list z with the spans of head's link records above level 0 set to 0
staleCleared(z) ==
    [z EXCEPT !.nodes[HEAD].level =
        [i \in LevelIdx |->
            IF i >= 1 THEN [forward |-> z.nodes[HEAD].level[i].forward, span |-> 0]
            ELSE z.nodes[HEAD].level[i]]]

\* C32: whenever every inserted element has been deleted again the list is
\* observably empty (Len() = 0, Height() = 1, HeadNode() and TailNode()
\* absent) and differs from a new list at most in the spans of head's link
\* records above level 0; an Insert into it gives what the same Insert into a
\* new list gives, and every list of a sequence of Inserts and Deletes, those
\* after a refill included, is in the total order with ranks and spans right.
C32_EmptiedListIsReusable ==
    /\ set = {} =>
          /\ ListLen(zsl) = 0
          /\ Height(zsl) = 1
          /\ HeadNode(zsl) = NIL
          /\ TailNode(zsl) = NIL
          /\ staleCleared(zsl) = NewZSkipList(0)
          /\ \A obj \in testPlayer, rlevel \in DrawnLevels :
                belowHeight(Insert(zsl, obj.Populace, obj, rlevel).z)
                   = belowHeight(Insert(NewZSkipList(0), obj.Populace, obj, rlevel).z)
    /\ Elems(zsl, LevelChain(zsl, 0)) = RefSort(set)
    /\ \A e \in set : GetRank(zsl, e.score, e.Obj) = PosIn(RefSort(set), e)
    /\ spansHold(zsl)

\* an emptied list whose head still holds a span at level 1, and an Insert
\* into it that gains level 1 again
C32_Witness ==
    /\ set = {}
    /\ zsl.nodes[HEAD].level[1].span # 0
    /\ \E obj \in testPlayer :
          LET z1 == Insert(zsl, obj.Populace, obj, 2).z IN
             /\ Height(z1) = 2
             /\ z1.nodes[HEAD].level[1] = [forward |-> Uuid(obj), span |-> 1]

\* ---- C33 -----------------------------------------------------------------------
\* C33: for every pair of bounds, a lower bound above the upper one, equal
\* bounds and an empty list included, FirstInRange and LastInRange read no
\* absent node and return nil or the node of a live element, never head.
C33_RangeQueriesAreSafe ==
    \A scoreMax \in Scores, scoreMin \in Scores :
        /\ FirstInRange(zsl, scoreMax, scoreMin) \in {NIL} \cup LiveUids
        /\ LastInRange(zsl, scoreMax, scoreMin) \in {NIL} \cup LiveUids

\* ---- C34 -----------------------------------------------------------------------
\* what the call in flight returns the list as when it runs alone
ranAlone ==
    IF op.call = "Insert" THEN Insert(op.before, op.e.score, op.e.Obj, op.c.rlevel).z
    ELSE Delete(op.before, op.e.score, op.e.Obj).z

\* the spans of the links on the level chains of z below its height are the
\* distances in rank
chainSpansHold(z) ==
    LET chain == LevelChain(z, 0) IN
    \A i \in 0..(z.level - 1) :
        \A u \in {HEAD} \cup Range(LevelChain(z, i)) :
            LET l == z.nodes[u].level[i]
                ru == IF u = HEAD THEN 0 ELSE PosIn(chain, u)
            IN l.span = (IF l.forward # NIL THEN PosIn(chain, l.forward)
                         ELSE Len(chain)) - ru

\* C34: Insert and Delete are not atomic for a reader: between two writes of
\* a mutation the spans are not the distances in rank, and a GetRank or
\* GetElementByRank that runs there can return what neither the list before
\* nor the list after the mutation gives (the witness); when every mutation
\* has made all its writes the list is the one the mutation gives when it
\* runs alone, with spans, backward references and ranks right.
C34_WritesAreNotAtomic ==
    /\ [](op.name = "none" =>
            /\ spansHold(zsl)
            /\ backwardHolds(zsl)
            /\ \A e \in set : GetRank(zsl, e.score, e.Obj) = PosIn(RefSort(set), e)
            /\ \A r \in 1..ListLen(zsl) :
                  GetElementByRank(zsl, r) = LevelChain(zsl, 0)[r])
    /\ [][op.name = "writing" /\ op'.name = "none" => zsl' = ranAlone]_vars

\* between two writes of a Delete the span of a link on a level chain is not
\* the distance in rank, and GetRank of an element that is inside has
\* returned what it returns neither before nor after the Delete
C34_Witness ==
    /\ op.name = "writing"
    /\ op.call = "Delete"
    /\ ~chainSpansHold(zsl)
    /\ op.read.name = "GetRank"
    /\ op.read.e \in set
    /\ op.read.ret # GetRank(op.before, op.read.e.score, op.read.e.Obj)
    /\ op.read.ret # GetRank(ranAlone, op.read.e.score, op.read.e.Obj)

\* ---- C35 -----------------------------------------------------------------------
\* the number of nodes met on the level-i forward links from n before the
\* absent reference; -1 when it is not reached within fuel nodes
RECURSIVE linksToNil(_, _, _, _)
linksToNil(z, n, i, fuel) ==
    IF n = NIL THEN 0
    ELSE IF fuel = 0 \/ n \notin DOMAIN z.nodes THEN -1
    ELSE IF i \notin DOMAIN z.nodes[n].level THEN -1
    ELSE LET r == linksToNil(z, z.nodes[n].level[i].forward, i, fuel - 1)
         IN IF r < 0 THEN -1 ELSE r + 1

\* the same on the backward references
RECURSIVE backLinksToNil(_, _, _)
backLinksToNil(z, n, fuel) ==
    IF n = NIL THEN 0
    ELSE IF fuel = 0 \/ n \notin DOMAIN z.nodes THEN -1
    ELSE LET r == backLinksToNil(z, z.nodes[n].backward, fuel - 1)
         IN IF r < 0 THEN -1 ELSE r + 1

\* the nodes that the loop of a range delete holds in x, one after the
\* other, follow each other on the level-0 chain of the list before the call
loopAdvances(z, tr) ==
    LET chain == LevelChain(z, 0) IN
    /\ Len(tr) <= z.length + 1
    /\ \A k \in 1..(Len(tr) - 1) :
          /\ PosIn(chain, tr[k].x) > 0
          /\ tr[k + 1].x = NIL \/ PosIn(chain, tr[k + 1].x) = PosIn(chain, tr[k].x) + 1

\* C35: every public operation terminates on every reachable list: at every
\* level the forward links from head pass at most Len() nodes, none twice,
\* and reach nil; the backward references from tail pass the Len() nodes
\* (Len() - 1 links) and reach nil; every forward link leads to a node later
\* on the level-0 chain and every backward reference to an earlier one, so
\* each step of a descent advances; and the loop of a range delete steps
\* from each node to the next of the level-0 chain.
C35_ChainsEnd ==
    LET chain == LevelChain(zsl, 0)
        len == ListLen(zsl)
        pos(u) == IF u = HEAD THEN 0 ELSE PosIn(chain, u)
    IN /\ Len(chain) = len
       /\ \A i \in LevelIdx :
             linksToNil(zsl, zsl.nodes[HEAD].level[i].forward, i, len + 1) \in 0..len
       /\ backLinksToNil(zsl, zsl.tail, len + 1) = len
       /\ \A u \in DOMAIN zsl.nodes :
             /\ u # HEAD => pos(u) > 0
             /\ \A i \in DOMAIN zsl.nodes[u].level :
                   zsl.nodes[u].level[i].forward # NIL =>
                      pos(zsl.nodes[u].level[i].forward) > pos(u)
             /\ zsl.nodes[u].backward # NIL =>
                   /\ pos(zsl.nodes[u].backward) > 0
                   /\ pos(zsl.nodes[u].backward) < pos(u)
       /\ \A start \in RangeRanks :
             LET d == rangeRankDescend(zsl, HEAD, zsl.level - 1,
                                       [i \in LevelIdx |-> NIL], 0, start)
             IN \A end \in RangeRanks :
                   loopAdvances(zsl, deleteMoments(zsl, zsl.nodes[d.x].level[0].forward,
                                   d.update, DeleteRangeByRank(zsl, start, end).ret))
       /\ \A scoreMax \in Scores :
             LET d == rangeScoreDescend(zsl, HEAD, zsl.level - 1,
                                        [i \in LevelIdx |-> NIL], scoreMax)
             IN \A scoreMin \in Scores :
                   loopAdvances(zsl, deleteMoments(zsl, zsl.nodes[d.x].level[0].forward,
                                   d.update, DeleteRangeByScore(zsl, scoreMax, scoreMin).ret))

\* three elements in a list of height 3 or more, the second of them on a
\* level above 0, and a range delete whose loop runs twice
C35_Witness ==
    /\ ListLen(zsl) = 3
    /\ Height(zsl) >= 3
    /\ linksToNil(zsl, zsl.nodes[HEAD].level[1].forward, 1, 4) >= 2
    /\ backLinksToNil(zsl, zsl.tail, 4) = 3
    /\ DeleteRangeByRank(zsl, 2, 3).ret = 2

=============================================================================
